---- MODULE Spec2Model ----
(***************************************************************************)
(* A model of the flern REST backend: the CRUD repository contract of the  *)
(* eight persisted entity kinds, the pagination adapter, the ownership     *)
(* gate check_access, and the account routes built on them.                *)
(*                                                                         *)
(* The storage engine is a map from entity kind to the sequence of rows of *)
(* its table.  Every repository call is one SQL statement, hence one       *)
(* atomic step; a multi-statement operation (page = list + count) is one   *)
(* step per statement, so other requests' writes interleave between them.  *)
(***************************************************************************)
EXTENDS Integers, Sequences, FiniteSets, TLC

VARIABLES
    db,        \* kind -> sequence of rows (the tables, in storage order)
    nextId,    \* the next value Uuid::new_v4() hands out
    created,   \* history: the identifiers returned by successful creates
    deleted,   \* history: <<kind, id>> of every successful delete
    held,      \* the entity value a request holds (Option<[kind, ent]>)
    pg,        \* the request in flight between two statements: a page()
               \* after its list, a task check after its first write
    sessions,  \* user ids for which a signed SID token has been issued
    out,       \* what the last completed operation returned
    scope,     \* the tables the requests of this behaviour work on
    clock      \* the current time, in ticks

vars == <<db, nextId, created, deleted, held, pg, sessions, out, scope, clock>>

-----------------------------------------------------------------------------
(* Bounds of the model *)

MaxId == 2       \* at most this many rows are ever created in a behaviour
MaxLimit == 2    \* limit and offset of a page range over 0..MaxLimit
MaxTime == 2     \* the clock runs over 0..MaxTime

\* the identifiers new_v4 generates; foreign ids and actor ids range over them
Ids == 1..MaxId
RefIds == Ids

\* the id of the administrator account the migrations seed
AdminRowId == 0
AllIds == Ids \cup {AdminRowId}

\* Uuid::max(): above every identifier new_v4 generates
UuidMax == MaxId + 1

Kinds == {"User", "Module", "Lesson", "Task", "Answer",
          "UserProgress", "UserTaskAttempt", "ProgressToken"}

\* a behaviour works on one group of tables: a parent and its child kind, or
\* a kind alone (the tables of different groups never read one another)
Scopes == {{k} : k \in Kinds} \cup {{"Module", "Lesson"}, {"Task", "Answer"}}

\* the kinds impl_paginatable_for! is applied to
Paginatable == {"User", "Module", "Lesson", "Answer",
                "UserProgress", "UserTaskAttempt"}

-----------------------------------------------------------------------------
(* Option<T> and Result<T, DatabaseError> *)

None == [some |-> FALSE]
Some(v) == [some |-> TRUE, val |-> v]

unwrap_or(o, d) == IF o.some THEN o.val ELSE d

Ok(v) == [ok |-> TRUE, val |-> v]
Err(e) == [ok |-> FALSE, err |-> e]

Unit == "()"

-----------------------------------------------------------------------------
(* Actor / identity context *)

UserRole == {"Admin", "User"}

\* a decoding that ignores the case of the stored string
UserRole_from_nocase(s) ==
    IF s \in {"admin", "Admin", "ADMIN"} THEN "Admin" ELSE "User"

\* impl From<&str> for UserRole
UserRole_from(s) == IF s = "admin" THEN "Admin" ELSE "User"

\* impl Display for UserRole
UserRole_to_string(r) == IF r = "Admin" THEN "admin" ELSE "user"

AuthenticatedUser_new(id, role) == [user_id |-> id, user_role |-> role]

AuthenticatedUser_admin == [user_id |-> UuidMax, user_role |-> "Admin"]

\* the actors of the model: the sentinel, and users and admins with row ids
Actors == {AuthenticatedUser_admin}
            \cup {AuthenticatedUser_new(u, r) : u \in RefIds, r \in UserRole}

-----------------------------------------------------------------------------
(* Payloads (the CreateUpdate types), drawn from small sets *)

Usernames == {"alice", "bob"}
Passwords == {"admin", "pw"}

\* auth::hash_password: an argon2 hash of the password
hash_password(p) ==
    CASE p = "admin" -> "$argon2$admin"
      [] p = "pw" -> "$argon2$pw"

\* auth::verify_password(hash, password)
verify_password(hash, p) == hash = hash_password(p)
OptIndex == {None, Some(1)}
OptBool == {None, Some(TRUE)}
TaskTypes == {"string_cmp", "choice"}

Payloads(kind) ==
    CASE kind = "User" ->
           [username : Usernames, password_hash : {hash_password("pw")}]
      [] kind = "Module" ->
           [title : {"t"}, description : {"d"}, order_index : OptIndex]
      [] kind = "Lesson" ->
           [module_id : RefIds, title : {"t"}, content : {"c"},
            order_index : OptIndex]
      [] kind = "Task" ->
           [lesson_id : {1}, task_type : TaskTypes, question : {"q"},
            explanation : {"e"}]
      [] kind = "Answer" ->
           [task_id : RefIds, answer_text : {"a"}, image : {"i"},
            is_correct : OptBool]
      [] kind = "UserProgress" ->
           [user_id : RefIds, lesson_id : {1}, status : {"done"}]
      [] kind = "UserTaskAttempt" ->
           [user_id : RefIds, task_id : {1}, selected_answer_id : {1},
            is_correct : BOOLEAN]
      [] kind = "ProgressToken" ->
           [token : {"tok"}, user_id : RefIds, expires_at : {0}]

\* one payload per kind with every optional field left out; the attempts
\* of each user (the contents of a row matter to no list, and to the count
\* of the attempts alone, which reads user_id)
PagePayloads(kind) ==
    CASE kind = "User" -> {d \in Payloads(kind) : d.username = "alice"}
      [] kind = "Module" -> {d \in Payloads(kind) : d.order_index = None}
      [] kind = "Lesson" ->
           {d \in Payloads(kind) : d.order_index = None /\ d.module_id = 1}
      [] kind = "Answer" ->
           {d \in Payloads(kind) : d.is_correct = None /\ d.task_id = 1}
      [] kind = "UserProgress" -> {d \in Payloads(kind) : d.user_id = 1}
      [] kind = "UserTaskAttempt" -> {d \in Payloads(kind) : d.is_correct}
      [] OTHER -> Payloads(kind)

-----------------------------------------------------------------------------
(* Tables *)

Rows(kind) == {db[kind][i] : i \in 1..Len(db[kind])}

RECURSIVE SelectSeq2(_, _)
\* the rows of s whose id differs from id, in order (DELETE ... WHERE id = $1)
SelectSeq2(s, id) ==
    IF s = <<>> THEN <<>>
    ELSE IF Head(s).id = id THEN SelectSeq2(Tail(s), id)
         ELSE <<Head(s)>> \o SelectSeq2(Tail(s), id)

-----------------------------------------------------------------------------
(* UserEntity *)

\* an INSERT that stores the administrator's role
UserEntity_create_row_admin(data, id) ==
    [id |-> id, username |-> data.username,
     password_hash |-> data.password_hash,
     role |-> UserRole_to_string("Admin")]

\* the row INSERT INTO users binds; the role is always UserRole::User
UserEntity_create_row(data, id) ==
    [id |-> id, username |-> data.username,
     password_hash |-> data.password_hash,
     role |-> UserRole_to_string("User")]

\* the struct create returns, built from the payload and the RETURNING id
UserEntity_create(data, id) ==
    [id |-> id, username |-> data.username,
     password_hash |-> data.password_hash,
     role |-> UserRole_to_string("User")]

\* an UPDATE that writes the payload's password_hash as well
UserEntity_update_set_hash(data, row) ==
    [row EXCEPT !.username = data.username,
                !.password_hash = data.password_hash]

\* UPDATE users SET username = $1 WHERE id = $2
UserEntity_update_set(data, row) == [row EXCEPT !.username = data.username]

\* the struct update returns: self with password_hash and username replaced
UserEntity_update(self, data) ==
    [self EXCEPT !.password_hash = data.password_hash,
                 !.username = data.username]

UserEntity_role(self) == UserRole_from(self.role)

(* Module *)

\* an INSERT that leaves an absent order_index to a column default of 1
Module_create_row_dflt(data, id) ==
    [id |-> id, title |-> data.title, description |-> data.description,
     order_index |-> unwrap_or(data.order_index, 1)]

Module_create_row(data, id) ==
    [id |-> id, title |-> data.title, description |-> data.description,
     order_index |-> unwrap_or(data.order_index, 0)]

Module_create(data, id) ==
    [id |-> id, title |-> data.title, description |-> data.description,
     order_index |-> unwrap_or(data.order_index, 0)]

\* an UPDATE that keeps the stored order_index when the payload gives none
Module_update_set_patch(data, row) ==
    [row EXCEPT !.title = data.title, !.description = data.description,
                !.order_index = unwrap_or(data.order_index, row.order_index)]

Module_update_set(data, row) ==
    [row EXCEPT !.title = data.title, !.description = data.description,
                !.order_index = unwrap_or(data.order_index, 0)]

Module_update(self, data) ==
    [self EXCEPT !.title = data.title, !.description = data.description,
                 !.order_index = unwrap_or(data.order_index, 0)]

(* Lesson *)

\* a lesson keyed by its module's id
Lesson_create_row_keyed(data, id) ==
    [id |-> data.module_id, module_id |-> data.module_id, title |-> data.title,
     content |-> data.content,
     order_index |-> unwrap_or(data.order_index, 0)]

Lesson_create_row(data, id) ==
    [id |-> id, module_id |-> data.module_id, title |-> data.title,
     content |-> data.content,
     order_index |-> unwrap_or(data.order_index, 0)]

Lesson_create(data, id) ==
    [id |-> id, module_id |-> data.module_id, title |-> data.title,
     content |-> data.content,
     order_index |-> unwrap_or(data.order_index, 0)]

Lesson_update_set(data, row) ==
    [row EXCEPT !.module_id = data.module_id, !.title = data.title,
                !.content = data.content,
                !.order_index = unwrap_or(data.order_index, 0)]

Lesson_update(self, data) ==
    [self EXCEPT !.module_id = data.module_id, !.title = data.title,
                 !.content = data.content,
                 !.order_index = unwrap_or(data.order_index, 0)]

(* LessonTask *)

LessonTask_create_row(data, id) ==
    [id |-> id, lesson_id |-> data.lesson_id, task_type |-> data.task_type,
     question |-> data.question, explanation |-> data.explanation]

LessonTask_create(data, id) ==
    [id |-> id, lesson_id |-> data.lesson_id, task_type |-> data.task_type,
     question |-> data.question, explanation |-> data.explanation]

LessonTask_update_set(data, row) ==
    [row EXCEPT !.lesson_id = data.lesson_id, !.task_type = data.task_type,
                !.question = data.question,
                !.explanation = data.explanation]

LessonTask_update(self, data) ==
    [self EXCEPT !.lesson_id = data.lesson_id, !.task_type = data.task_type,
                 !.question = data.question,
                 !.explanation = data.explanation]

(* Answer *)

Answer_create_row(data, id) ==
    [id |-> id, task_id |-> data.task_id, answer_text |-> data.answer_text,
     image |-> data.image, is_correct |-> unwrap_or(data.is_correct, FALSE)]

Answer_create(data, id) ==
    [id |-> id, task_id |-> data.task_id, answer_text |-> data.answer_text,
     image |-> data.image, is_correct |-> unwrap_or(data.is_correct, FALSE)]

Answer_update_set(data, row) ==
    [row EXCEPT !.task_id = data.task_id, !.answer_text = data.answer_text,
                !.image = data.image,
                !.is_correct = unwrap_or(data.is_correct, FALSE)]

Answer_update(self, data) ==
    [self EXCEPT !.task_id = data.task_id, !.answer_text = data.answer_text,
                 !.image = data.image,
                 !.is_correct = unwrap_or(data.is_correct, FALSE)]

(* UserProgress *)

UserProgress_create_row(data, id) ==
    [id |-> id, user_id |-> data.user_id, lesson_id |-> data.lesson_id,
     status |-> data.status]

UserProgress_create(data, id) ==
    [id |-> id, user_id |-> data.user_id, lesson_id |-> data.lesson_id,
     status |-> data.status]

UserProgress_update_set(data, row) ==
    [row EXCEPT !.user_id = data.user_id, !.lesson_id = data.lesson_id,
                !.status = data.status]

UserProgress_update(self, data) ==
    [self EXCEPT !.user_id = data.user_id, !.lesson_id = data.lesson_id,
                 !.status = data.status]

(* UserTaskAttempt *)

UserTaskAttempt_create_row(data, id) ==
    [id |-> id, user_id |-> data.user_id, task_id |-> data.task_id,
     selected_answer_id |-> data.selected_answer_id,
     is_correct |-> data.is_correct]

\* create returns the row the INSERT ... RETURNING hands back
UserTaskAttempt_create(data, id) == UserTaskAttempt_create_row(data, id)

UserTaskAttempt_update_set(data, row) ==
    [row EXCEPT !.user_id = data.user_id, !.task_id = data.task_id,
                !.selected_answer_id = data.selected_answer_id,
                !.is_correct = data.is_correct]

UserTaskAttempt_update(self, data) ==
    [self EXCEPT !.user_id = data.user_id, !.task_id = data.task_id,
                 !.selected_answer_id = data.selected_answer_id,
                 !.is_correct = data.is_correct]

(* ProgressToken *)

\* created_at is not bound: the column's default, the time of the insert
ProgressToken_create_row(data, id) ==
    [id |-> id, token |-> data.token, user_id |-> data.user_id,
     expires_at |-> data.expires_at, created_at |-> clock]

ProgressToken_create(data, id) == ProgressToken_create_row(data, id)

-----------------------------------------------------------------------------
(* CrudRepository, by kind *)

create_row(kind, data, id) ==
    CASE kind = "User" -> UserEntity_create_row(data, id)
      [] kind = "Module" -> Module_create_row(data, id)
      [] kind = "Lesson" -> Lesson_create_row(data, id)
      [] kind = "Task" -> LessonTask_create_row(data, id)
      [] kind = "Answer" -> Answer_create_row(data, id)
      [] kind = "UserProgress" -> UserProgress_create_row(data, id)
      [] kind = "UserTaskAttempt" -> UserTaskAttempt_create_row(data, id)
      [] kind = "ProgressToken" -> ProgressToken_create_row(data, id)

create(kind, data, id) ==
    CASE kind = "User" -> UserEntity_create(data, id)
      [] kind = "Module" -> Module_create(data, id)
      [] kind = "Lesson" -> Lesson_create(data, id)
      [] kind = "Task" -> LessonTask_create(data, id)
      [] kind = "Answer" -> Answer_create(data, id)
      [] kind = "UserProgress" -> UserProgress_create(data, id)
      [] kind = "UserTaskAttempt" -> UserTaskAttempt_create(data, id)
      [] kind = "ProgressToken" -> ProgressToken_create(data, id)

\* the kinds whose update is implemented (ProgressToken's is unimplemented!)
Updatable == Kinds \ {"ProgressToken"}

update_set(kind, data, row) ==
    CASE kind = "User" -> UserEntity_update_set(data, row)
      [] kind = "Module" -> Module_update_set(data, row)
      [] kind = "Lesson" -> Lesson_update_set(data, row)
      [] kind = "Task" -> LessonTask_update_set(data, row)
      [] kind = "Answer" -> Answer_update_set(data, row)
      [] kind = "UserProgress" -> UserProgress_update_set(data, row)
      [] kind = "UserTaskAttempt" -> UserTaskAttempt_update_set(data, row)

\* UPDATE t SET ... WHERE id = $n: rewrites the rows matching, none otherwise
UpdateWhereId(s, id, kind, data) ==
    [i \in 1..Len(s) |->
        IF s[i].id = id THEN update_set(kind, data, s[i]) ELSE s[i]]

update(kind, self, data) ==
    CASE kind = "User" -> UserEntity_update(self, data)
      [] kind = "Module" -> Module_update(self, data)
      [] kind = "Lesson" -> Lesson_update(self, data)
      [] kind = "Task" -> LessonTask_update(self, data)
      [] kind = "Answer" -> Answer_update(self, data)
      [] kind = "UserProgress" -> UserProgress_update(self, data)
      [] kind = "UserTaskAttempt" -> UserTaskAttempt_update(self, data)

\* SELECT * FROM t WHERE id = $1, RowNotFound mapped to None
find_by_id(kind, id) ==
    IF \E r \in Rows(kind) : r.id = id
    THEN Some(CHOOSE r \in Rows(kind) : r.id = id)
    ELSE None

Min(a, b) == IF a < b THEN a ELSE b

\* a SELECT with the OFFSET and no LIMIT
list_nolimit(kind, limit, offset) ==
    SubSeq(db[kind], offset + 1, Len(db[kind]))

\* SELECT * FROM t LIMIT $1 OFFSET $2
list(kind, limit, offset) ==
    SubSeq(db[kind], offset + 1, Min(offset + limit, Len(db[kind])))

\* SELECT COUNT(*) FROM t for every table
count_all(kind, actor) == Len(db[kind])

\* SELECT COUNT(*) FROM t; user_task_attempts adds WHERE user_id = $1
count(kind, actor) ==
    IF kind = "UserTaskAttempt"
    THEN Cardinality({i \in 1..Len(db[kind]) :
                         db[kind][i].user_id = actor.user_id})
    ELSE Len(db[kind])

Page_new(items, total, limit, offset) ==
    [items |-> items, total |-> total, limit |-> limit, offset |-> offset]

-----------------------------------------------------------------------------
(* Ownership / access *)

\* the kinds that implement HasOwner
Owned == Kinds \ {"ProgressToken"}

\* every entity its own owner, as UserEntity and Module are
get_owner_id_self(kind, self) == Ok(self.id)

get_owner_id(kind, self) ==
    CASE kind = "User" -> Ok(self.id)
      [] kind = "Module" -> Ok(self.id)
      [] kind = "Lesson" -> Ok(self.module_id)
      [] kind = "Task" -> Ok(self.lesson_id)
      [] kind = "Answer" -> Ok(self.task_id)
      [] kind = "UserProgress" -> Ok(self.user_id)
      [] kind = "UserTaskAttempt" -> Ok(self.user_id)

\* check_access, given what resource.get_owner_id(mm, ctx).await returned:
\* the lookup's error is propagated (`?`) before the role is looked at
\* a gate that lets every caller through once the owner is resolved
check_access_open(ctx, lookup, expected) ==
    IF ~lookup.ok THEN Err(lookup.err) ELSE Ok(Unit)

check_access(ctx, lookup, expected) ==
    IF ~lookup.ok THEN Err(lookup.err)
    ELSE IF ctx.user_role = "Admin" THEN Ok(Unit)
    ELSE IF lookup.val = expected THEN Ok(Unit)
    ELSE Err("Forbidden")

\* what get_owner_id of an arbitrary HasOwner implementor may return
OwnerLookups == {Ok(o) : o \in RefIds} \cup {Err("SqlxError")}

-----------------------------------------------------------------------------
(* State *)

Idle == [pc |-> "idle"]

\* the administrator account of a migrated database
SeededAdmin ==
    [id |-> AdminRowId, username |-> "admin",
     password_hash |-> hash_password("admin"), role |-> "admin"]

Init ==
    /\ scope \in Scopes
    /\ db = [k \in Kinds |-> IF k = "User" THEN <<SeededAdmin>> ELSE <<>>]
    /\ nextId = 1
    /\ created = <<>>
    /\ deleted = {}
    /\ held = None
    /\ pg = Idle
    /\ sessions = {}
    /\ out = [op |-> "none"]
    /\ clock = 0

\* a generator that hands out again the id of a deleted row
NewV4_reuse ==
    IF deleted # {} THEN (CHOOSE p \in deleted : TRUE)[2] ELSE nextId

\* Uuid::new_v4(): a value no earlier call returned
NewV4 == nextId

\* a write to table kind while a page of that kind is between list and count
MarkWrite(kind) ==
    IF pg.pc = "listed" /\ pg.kind = kind THEN [pg EXCEPT !.wrote = TRUE]
    ELSE pg

-----------------------------------------------------------------------------
(* Repository operations, one SQL statement each *)

\* the rows a statement removed (the rows_affected of its result)
rows_affected(before, after) == Len(before) - Len(after)

\* a delete that reports a statement that matched no row
delete_result_strict(affected) ==
    IF affected = 0 THEN Err("RowNotFound") ELSE Ok(Unit)

\* .execute(..).await?; Ok(()): the statement ran, its row count is dropped
delete_result(affected) == Ok(Unit)

\* T::create(mm, actor, data)
Create(kind, data) ==
    /\ kind \in scope
    /\ nextId <= MaxId
    /\ LET row == create_row(kind, data, NewV4)
           ent == create(kind, data, row.id)
       IN /\ db' = [db EXCEPT ![kind] = Append(@, row)]
          /\ created' = Append(created, ent.id)
          /\ held' = Some([kind |-> kind, ent |-> ent])
          /\ out' = [op |-> "create", kind |-> kind, data |-> data,
                     res |-> Ok(ent)]
    /\ nextId' = nextId + 1
    /\ pg' = MarkWrite(kind)
    /\ UNCHANGED <<deleted, sessions, scope, clock>>

\* T::find_by_id(mm, actor, id)
FindById(kind, id) ==
    /\ kind \in scope
    /\ LET found == find_by_id(kind, id)
       IN /\ held' = IF found.some
                     THEN Some([kind |-> kind, ent |-> found.val])
                     ELSE None
          /\ out' = [op |-> "find_by_id", kind |-> kind, id |-> id,
                     res |-> Ok(found)]
    /\ UNCHANGED <<db, nextId, created, deleted, pg, sessions, scope, clock>>

\* self.update(mm, actor, data) on the entity the request holds
Update(data) ==
    /\ held.some
    /\ held.val.kind \in Updatable
    /\ LET kind == held.val.kind
           self == held.val.ent
           ent == update(kind, self, data)
       IN /\ data \in Payloads(kind)
          /\ db' = [db EXCEPT ![kind] = UpdateWhereId(@, self.id, kind, data)]
          /\ held' = Some([kind |-> kind, ent |-> ent])
          /\ out' = [op |-> "update", kind |-> kind, self |-> self,
                     data |-> data, res |-> Ok(ent)]
          /\ pg' = MarkWrite(kind)
    /\ UNCHANGED <<nextId, created, deleted, sessions, scope, clock>>

\* self.delete(mm, actor) on the entity the request holds
Delete ==
    /\ held.some
    /\ LET kind == held.val.kind
           self == held.val.ent
           affected == rows_affected(db[kind], SelectSeq2(db[kind], self.id))
       IN /\ db' = [db EXCEPT ![kind] = SelectSeq2(@, self.id)]
          /\ deleted' = deleted \cup {<<kind, self.id>>}
          /\ out' = [op |-> "delete", kind |-> kind, id |-> self.id,
                     affected |-> affected, res |-> delete_result(affected)]
          /\ pg' = MarkWrite(kind)
    /\ held' = None
    /\ UNCHANGED <<nextId, created, sessions, scope, clock>>

\* another request loads a row and deletes it; the entity this request holds
\* is left as it is
DeleteByOther(kind, id) ==
    /\ kind \in scope
    /\ find_by_id(kind, id).some
    /\ db' = [db EXCEPT ![kind] = SelectSeq2(@, id)]
    /\ deleted' = deleted \cup {<<kind, id>>}
    /\ out' = [op |-> "delete", kind |-> kind, id |-> id, affected |-> 1,
               res |-> delete_result(1)]
    /\ pg' = MarkWrite(kind)
    /\ UNCHANGED <<nextId, created, held, sessions, scope, clock>>

\* check_access(mm, ctx, resource, expected) on the entity the request holds
CheckAccess(ctx, expected) ==
    /\ held.some
    /\ held.val.kind \in Owned
    /\ LET kind == held.val.kind
           lookup == get_owner_id(kind, held.val.ent)
       IN out' = [op |-> "check_access", ctx |-> ctx, kind |-> kind,
                  resource |-> held.val.ent, lookup |-> lookup,
                  expected |-> expected,
                  res |-> check_access(ctx, lookup, expected)]
    /\ UNCHANGED <<db, nextId, created, deleted, held, pg, sessions, scope, clock>>

\* check_access on a resource of any type T: HasOwner, whose lookup may
\* fail; the resource is no row of the tables, so the request holds none
CheckAccessAny(ctx, lookup, expected) ==
    /\ ~held.some
    /\ out' = [op |-> "check_access", ctx |-> ctx, kind |-> "T",
               lookup |-> lookup, expected |-> expected,
               res |-> check_access(ctx, lookup, expected)]
    /\ UNCHANGED <<db, nextId, created, deleted, held, pg, sessions, scope, clock>>

-----------------------------------------------------------------------------
(* The account routes.  A handler and the middleware before it are taken   *)
(* as one step.                                                            *)

\* request bodies (UserCreateUpdateBody)
Bodies == [username : Usernames \cup {"admin"}, password : Passwords]

\* the bodies sent to PUT: the handler reads the username alone
UpdateBodies == [username : {"bob", "admin"}, password : {"pw"}]

\* the SID cookie of a request: absent, not a token this server signed, or
\* a token issued at signup or signin, whose sub is the user's id
Cookies ==
    {[k |-> "none"], [k |-> "invalid"]}
        \cup {[k |-> "token", sub |-> u] : u \in sessions}

\* SELECT * FROM users WHERE username = $1, fetch_one: the first such row
find_by_username(username) ==
    LET hits == {i \in 1..Len(db["User"]) : db["User"][i].username = username}
    IN IF hits = {} THEN None
       ELSE Some(db["User"][CHOOSE i \in hits : \A j \in hits : i <= j])

\* a middleware that takes the identity from the token without a lookup
extract_context_fn_cached(cookie) ==
    CASE cookie.k = "none" -> Ok(None)
      [] cookie.k = "invalid" -> Err(400)
      [] cookie.k = "token" ->
           Ok(Some(AuthenticatedUser_new(cookie.sub, "User")))

\* a middleware that falls back to the sentinel when the token's row is gone
extract_context_fn_sentinel(cookie) ==
    CASE cookie.k = "none" -> Ok(None)
      [] cookie.k = "invalid" -> Err(400)
      [] cookie.k = "token" ->
           LET role == find_by_id("User", cookie.sub)
           IN IF role.some
              THEN Ok(Some(AuthenticatedUser_new(cookie.sub,
                                                 UserEntity_role(role.val))))
              ELSE Ok(Some(AuthenticatedUser_admin))

\* extract_context_fn: the RequestContext (Option<AuthenticatedUser>) of the
\* request, or the error response of a cookie that does not verify
extract_context_fn(cookie) ==
    CASE cookie.k = "none" -> Ok(None)
      [] cookie.k = "invalid" -> Err(400)
      [] cookie.k = "token" ->
           LET role == find_by_id("User", cookie.sub)
           IN IF role.some
              THEN Ok(Some(AuthenticatedUser_new(cookie.sub,
                                                 UserEntity_role(role.val))))
              ELSE Ok(None)

\* the status of a DatabaseError out of check_access, as the handlers map it
access_status(e) == IF e = "Forbidden" THEN 403 ELSE 500

\* a delete handler without the check_access call
user_delete_handler_ungated(ctx, id) ==
    IF ~ctx.some THEN [status |-> 401, del |-> None]
    ELSE LET found == find_by_id("User", id)
         IN IF ~found.some THEN [status |-> 404, del |-> None]
            ELSE [status |-> 200, del |-> Some(found.val)]

\* user_delete_handler: the status, and the entity it deletes if any
user_delete_handler(ctx, id) ==
    IF ~ctx.some THEN [status |-> 401, del |-> None]
    ELSE LET user == ctx.val
             found == find_by_id("User", id)
         IN IF ~found.some THEN [status |-> 404, del |-> None]
            ELSE LET acc == check_access(user,
                                         get_owner_id("User", found.val),
                                         user.user_id)
                 IN IF ~acc.ok
                    THEN [status |-> access_status(acc.err), del |-> None]
                    ELSE [status |-> 200, del |-> Some(found.val)]

\* an update handler that compares the caller's id with {id} before it
\* looks the row up
user_update_handler_authfirst(ctx, id, payload) ==
    IF ~ctx.some THEN [status |-> 401, upd |-> None]
    ELSE LET user == ctx.val
             found == find_by_id("User", id)
         IN IF user.user_role # "Admin" /\ user.user_id # id
            THEN [status |-> 403, upd |-> None]
            ELSE IF ~found.some THEN [status |-> 404, upd |-> None]
            ELSE IF find_by_username(payload.username).some
            THEN [status |-> 409, upd |-> None]
            ELSE [status |-> 200,
                  upd |-> Some([self |-> found.val,
                                data |-> [username |-> payload.username,
                                          password_hash |-> ""]])]

\* an update handler that does not look the new username up
user_update_handler_noconflict(ctx, id, payload) ==
    IF ~ctx.some THEN [status |-> 401, upd |-> None]
    ELSE LET user == ctx.val
             found == find_by_id("User", id)
         IN IF ~found.some THEN [status |-> 404, upd |-> None]
            ELSE LET acc == check_access(user,
                                         get_owner_id("User", found.val),
                                         user.user_id)
                 IN IF ~acc.ok
                    THEN [status |-> access_status(acc.err), upd |-> None]
                    ELSE [status |-> 200,
                          upd |-> Some([self |-> found.val,
                                        data |-> [username |-> payload.username,
                                                  password_hash |-> ""]])]

\* user_update_handler: the status, and the entity and payload of the update
\* it performs if any
user_update_handler(ctx, id, payload) ==
    IF ~ctx.some THEN [status |-> 401, upd |-> None]
    ELSE LET user == ctx.val
             found == find_by_id("User", id)
         IN IF ~found.some THEN [status |-> 404, upd |-> None]
            ELSE LET acc == check_access(user,
                                         get_owner_id("User", found.val),
                                         user.user_id)
                 IN IF ~acc.ok
                    THEN [status |-> access_status(acc.err), upd |-> None]
                    ELSE IF find_by_username(payload.username).some
                    THEN [status |-> 409, upd |-> None]
                    ELSE [status |-> 200,
                          upd |-> Some([self |-> found.val,
                                        data |-> [username |-> payload.username,
                                                  password_hash |-> ""]])]

\* WebError::status_code, by the variant of the error
status_code(e) ==
    CASE e = "ResourceNotFound" -> 404
      [] e = "ResourceForbidden" -> 403
      [] e = "ResourceFetchError" -> 500
      [] e = "RegistrationUserConflict" -> 409
      [] e = "AuthenticationRequired" -> 401
      [] e = "AuthenticationInvalidCredentials" -> 401
      [] e = "AuthenticationCookieInvalid" -> 400

\* WebError::client_display, the message the client reads
client_display(e) ==
    CASE e = "ResourceNotFound" -> "Resource error, resource not found."
      [] e = "ResourceForbidden" -> "Resource error, resource forbidden."
      [] e = "ResourceFetchError" -> "Resource error, unable to fetch resource."
      [] e = "RegistrationUserConflict" ->
           "Registration error, user already exists."
      [] e = "AuthenticationRequired" -> "Authentication required."
      [] e = "AuthenticationInvalidCredentials" ->
           "Authentication error, user not found or password is invalid."
      [] e = "AuthenticationCookieInvalid" ->
           "Authentication error, cookie invalid."

\* impl IntoResponse for WebError: the status and the ErrorResponse body
\* (details is the error's Display, present in debug builds)
into_response(e) ==
    [status |-> status_code(e),
     body |-> [message |-> client_display(e), details |-> e]]

\* the cookie signup and signin add to the response, its token's sub the
\* user's id
auth_cookie(sub) ==
    [name |-> "SID", value |-> [k |-> "token", sub |-> sub],
     same_site |-> "Lax", http_only |-> TRUE, path |-> "/"]

\* a signup that does not look the username up
user_signup_handler_nocheck(payload) ==
    Ok([username |-> payload.username,
        password_hash |-> hash_password(payload.password)])

\* user_signup_handler up to its insert: the payload of the user to create,
\* or the error returned
user_signup_handler(payload) ==
    IF find_by_username(payload.username).some
    THEN Err("RegistrationUserConflict")
    ELSE Ok([username |-> payload.username,
             password_hash |-> hash_password(payload.password)])

\* a signin that answers an unknown username as its documented 404
user_signin_handler_404(payload) ==
    LET found == find_by_username(payload.username)
    IN IF ~found.some THEN Err("ResourceNotFound")
       ELSE IF ~verify_password(found.val.password_hash, payload.password)
       THEN Err("AuthenticationInvalidCredentials")
       ELSE Ok(found.val)

\* user_signin_handler: the user signed in, or the error returned
user_signin_handler(payload) ==
    LET found == find_by_username(payload.username)
    IN IF ~found.some THEN Err("AuthenticationInvalidCredentials")
       ELSE IF ~verify_password(found.val.password_hash, payload.password)
       THEN Err("AuthenticationInvalidCredentials")
       ELSE Ok(found.val)

\* POST /api/v1/account/signup
Signup(payload) ==
    /\ "User" \in scope
    /\ LET r == user_signup_handler(payload)
       IN IF ~r.ok
          THEN /\ out' = [op |-> "user_signup", payload |-> payload,
                          status |-> into_response(r.err).status,
                          error |-> into_response(r.err).body,
                          cookie |-> None]
               /\ UNCHANGED <<db, nextId, created, sessions, pg>>
          ELSE /\ nextId <= MaxId
               /\ LET row == create_row("User", r.val, NewV4)
                      ent == create("User", r.val, row.id)
                  IN /\ db' = [db EXCEPT !["User"] = Append(@, row)]
                     /\ created' = Append(created, ent.id)
                     /\ sessions' = sessions \cup {ent.id}
                     /\ out' = [op |-> "user_signup", payload |-> payload,
                                status |-> 200, body |-> ent,
                                cookie |-> Some(auth_cookie(ent.id))]
               /\ nextId' = nextId + 1
               /\ pg' = MarkWrite("User")
    /\ UNCHANGED <<deleted, held, scope, clock>>

\* POST /api/v1/account/signin
Signin(payload) ==
    /\ "User" \in scope
    /\ LET r == user_signin_handler(payload)
       IN IF r.ok
          THEN /\ sessions' = sessions \cup {r.val.id}
               /\ out' = [op |-> "user_signin", payload |-> payload,
                          status |-> 200, body |-> r.val,
                          cookie |-> Some(auth_cookie(r.val.id))]
          ELSE /\ out' = [op |-> "user_signin", payload |-> payload,
                          status |-> into_response(r.err).status,
                          error |-> into_response(r.err).body,
                          cookie |-> None]
               /\ UNCHANGED sessions
    /\ UNCHANGED <<db, nextId, created, deleted, held, pg, scope, clock>>

\* a list handler that asks for authentication only
user_list_handler_anyrole(ctx, limit, offset) ==
    IF ~ctx.some
    THEN [res |-> Err("AuthenticationRequired"), queries |-> <<>>]
    ELSE [res |-> Ok(Page_new(list("User", limit, offset),
                              count("User", ctx.val), limit, offset)),
          queries |-> <<"list", "count">>]

\* user_list_handler: the page or the error returned, and the repository
\* queries on the users table the handler ran
user_list_handler(ctx, limit, offset) ==
    IF ~ctx.some
    THEN [res |-> Err("AuthenticationRequired"), queries |-> <<>>]
    ELSE IF ctx.val.user_role # "Admin"
    THEN [res |-> Err("ResourceForbidden"), queries |-> <<>>]
    ELSE [res |-> Ok(Page_new(list("User", limit, offset),
                              count("User", ctx.val), limit, offset)),
          queries |-> <<"list", "count">>]

\* GET /api/v1/account/page?limit=..&offset=..
UserList(cookie, limit, offset) ==
    /\ "User" \in scope
    /\ LET mw == extract_context_fn(cookie)
       IN IF ~mw.ok
          THEN out' = [op |-> "user_list", cookie |-> cookie, ctx |-> None,
                       status |-> mw.err, page |-> None, queries |-> <<>>]
          ELSE LET r == user_list_handler(mw.val, limit, offset)
               IN out' = [op |-> "user_list", cookie |-> cookie,
                          ctx |-> mw.val,
                          status |-> IF r.res.ok THEN 200
                                     ELSE status_code(r.res.err),
                          page |-> IF r.res.ok THEN Some(r.res.val) ELSE None,
                          queries |-> r.queries]
    /\ UNCHANGED <<db, nextId, created, deleted, held, pg, sessions, scope, clock>>

\* PUT /api/v1/account/{id}
UserUpdate(cookie, id, payload) ==
    /\ "User" \in scope
    /\ LET mw == extract_context_fn(cookie)
       IN IF ~mw.ok
          THEN /\ out' = [op |-> "user_update", cookie |-> cookie, id |-> id,
                          payload |-> payload, ctx |-> None,
                          found |-> find_by_id("User", id),
                          status |-> mw.err]
               /\ UNCHANGED <<db, pg>>
          ELSE LET r == user_update_handler(mw.val, id, payload)
               IN /\ out' = [op |-> "user_update", cookie |-> cookie,
                             id |-> id, payload |-> payload, ctx |-> mw.val,
                             found |-> find_by_id("User", id),
                             status |-> r.status,
                             body |-> IF r.upd.some
                                      THEN Some(update("User", r.upd.val.self,
                                                       r.upd.val.data))
                                      ELSE None]
                  /\ IF r.upd.some
                     THEN /\ db' = [db EXCEPT !["User"] =
                                      UpdateWhereId(@, r.upd.val.self.id,
                                                    "User", r.upd.val.data)]
                          /\ pg' = MarkWrite("User")
                     ELSE UNCHANGED <<db, pg>>
    /\ UNCHANGED <<nextId, created, deleted, held, sessions, scope, clock>>

\* DELETE /api/v1/account/{id}
UserDelete(cookie, id) ==
    /\ "User" \in scope
    /\ LET mw == extract_context_fn(cookie)
       IN IF ~mw.ok
          THEN /\ out' = [op |-> "user_delete", cookie |-> cookie, id |-> id,
                          ctx |-> None, found |-> find_by_id("User", id),
                          gone |-> <<"User", id>> \in deleted,
                          status |-> mw.err]
               /\ UNCHANGED <<db, deleted, pg>>
          ELSE LET r == user_delete_handler(mw.val, id)
               IN /\ out' = [op |-> "user_delete", cookie |-> cookie,
                             id |-> id, ctx |-> mw.val,
                             found |-> find_by_id("User", id),
                             gone |-> <<"User", id>> \in deleted,
                             status |-> r.status]
                  /\ IF r.del.some
                     THEN /\ db' = [db EXCEPT !["User"] =
                                      SelectSeq2(@, r.del.val.id)]
                          /\ deleted' = deleted \cup {<<"User", r.del.val.id>>}
                          /\ pg' = MarkWrite("User")
                     ELSE UNCHANGED <<db, deleted, pg>>
    /\ UNCHANGED <<nextId, created, held, sessions, scope, clock>>

-----------------------------------------------------------------------------
(* POST /api/v1/tasks/check: two reads, then up to two writes, one         *)
(* statement each and no transaction around them                           *)

\* the tables the handler reads and writes
CheckScope == {"Task", "Answer", "UserProgress", "UserTaskAttempt"}

\* a stored task with a right and a wrong answer, of ids create never issues
SeedTask ==
    [id |-> MaxId + 2, lesson_id |-> 1, task_type |-> "choice",
     question |-> "q", explanation |-> "e"]

SeedAnswers ==
    <<[id |-> MaxId + 3, task_id |-> SeedTask.id, answer_text |-> "a",
       image |-> "i", is_correct |-> TRUE],
      [id |-> MaxId + 4, task_id |-> SeedTask.id, answer_text |-> "b",
       image |-> "i", is_correct |-> FALSE]>>

\* str::trim on the answers a request sends
Trim(str) == IF str = " a " THEN "a" ELSE str

\* the TaskCheckRequest bodies; MaxId + 5 is the id of no answer
CheckRequests ==
    [answer_id : {MaxId + 3, MaxId + 4, MaxId + 5},
     task_type : TaskTypes,
     user_answer : {None, Some(" a "), Some("b")}]

\* the callers of the handler, as the middleware resolved them
CheckCallers ==
    {None, Some(AuthenticatedUser_new(AdminRowId, "Admin")),
     Some(AuthenticatedUser_new(MaxId, "User"))}

\* UserProgressCreate::new(user_id, lesson_id, true)
UserProgressCreate_new(user_id, lesson_id, completed) ==
    [user_id |-> user_id, lesson_id |-> lesson_id,
     status |-> IF completed THEN "done" ELSE "pending"]

\* a constructor that takes the answer's id for the task's
UserTaskAttemptCreate_new_swapped(user_id, task_id, selected_answer_id, is_correct) ==
    [user_id |-> user_id, task_id |-> selected_answer_id,
     selected_answer_id |-> task_id, is_correct |-> is_correct]

\* UserTaskAttemptCreate::new
UserTaskAttemptCreate_new(user_id, task_id, selected_answer_id, is_correct) ==
    [user_id |-> user_id, task_id |-> task_id,
     selected_answer_id |-> selected_answer_id, is_correct |-> is_correct]

\* the status of the errors the handler returns
check_status(e) == IF e = "UserBadRequest" THEN 400 ELSE status_code(e)

\* the download URL of an answer's image
image_url(image) == <<"/api/v1/static/", image>>

\* a handler whose verdict is selected by the type stored for the task
tasks_check_answer_handler_stored(ctx, req) ==
    IF ~ctx.some THEN Err("AuthenticationRequired")
    ELSE LET answer == find_by_id("Answer", req.answer_id)
         IN IF ~answer.some THEN Err("ResourceNotFound")
            ELSE IF req.task_type = "string_cmp" /\ ~req.user_answer.some
            THEN Err("UserBadRequest")
            ELSE LET task == find_by_id("Task", answer.val.task_id)
                     is_correct ==
                         IF task.val.task_type = "string_cmp"
                            /\ req.user_answer.some
                         THEN answer.val.answer_text = Trim(req.user_answer.val)
                         ELSE answer.val.is_correct
                 IN IF ~task.some THEN Err("ResourceNotFound")
                    ELSE Ok([user |-> ctx.val, answer |-> answer.val,
                             task |-> task.val, is_correct |-> is_correct])

\* tasks_check_answer_handler up to its writes: the answer, its task and
\* the verdict, or the error returned
tasks_check_answer_handler(ctx, req) ==
    IF ~ctx.some THEN Err("AuthenticationRequired")
    ELSE LET answer == find_by_id("Answer", req.answer_id)
         IN IF ~answer.some THEN Err("ResourceNotFound")
            ELSE IF req.task_type = "string_cmp" /\ ~req.user_answer.some
            THEN Err("UserBadRequest")
            ELSE LET is_correct ==
                         IF req.task_type = "string_cmp"
                         THEN answer.val.answer_text = Trim(req.user_answer.val)
                         ELSE answer.val.is_correct
                     task == find_by_id("Task", answer.val.task_id)
                 IN IF ~task.some THEN Err("ResourceNotFound")
                    ELSE Ok([user |-> ctx.val, answer |-> answer.val,
                             task |-> task.val, is_correct |-> is_correct])

\* a handler that undoes its first write when the second fails
check_abort_rollback(tables, progress) ==
    IF progress.some
    THEN [tables EXCEPT !["UserProgress"] = SelectSeq2(@, progress.val.id)]
    ELSE tables

\* the tables after the second write failed: the error is returned by `?`
\* and nothing the request wrote is touched
check_abort(tables, progress) == tables

\* the handler from its start through its first write, the INSERT into
\* user_progress of a correct answer; stored: the INSERT succeeded
TasksCheckMark(ctx, req, stored) ==
    /\ CheckScope \subseteq scope
    /\ pg.pc = "idle"
    /\ LET r == tasks_check_answer_handler(ctx, req)
       IN IF ~r.ok
          THEN /\ out' = [op |-> "tasks_check", ctx |-> ctx, req |-> req,
                          status |-> check_status(r.err),
                          progress |-> None, attempt |-> None]
               /\ UNCHANGED <<db, nextId, created, pg>>
          ELSE IF ~r.val.is_correct
          THEN /\ pg' = [pc |-> "marked", ctx |-> ctx, req |-> req,
                         checked |-> r.val, progress |-> None]
               /\ out' = [op |-> "tasks_check_mark", res |-> Ok(None)]
               /\ UNCHANGED <<db, nextId, created>>
          ELSE IF ~stored
          THEN /\ out' = [op |-> "tasks_check", ctx |-> ctx, req |-> req,
                          status |-> check_status("ResourceFetchError"),
                          progress |-> None, attempt |-> None]
               /\ UNCHANGED <<db, nextId, created, pg>>
          ELSE /\ nextId <= MaxId
               /\ LET data == UserProgressCreate_new(r.val.user.user_id,
                                                     r.val.task.lesson_id, TRUE)
                      row == create_row("UserProgress", data, NewV4)
                      ent == create("UserProgress", data, row.id)
                  IN /\ db' = [db EXCEPT !["UserProgress"] = Append(@, row)]
                     /\ created' = Append(created, ent.id)
                     /\ pg' = [pc |-> "marked", ctx |-> ctx, req |-> req,
                               checked |-> r.val, progress |-> Some(ent)]
                     /\ out' = [op |-> "tasks_check_mark",
                                res |-> Ok(Some(ent))]
               /\ nextId' = nextId + 1
    /\ UNCHANGED <<deleted, held, sessions, scope, clock>>

\* the handler's second write, the INSERT into user_task_attempts, and its
\* response; stored: the INSERT succeeded
TasksCheckAttempt(stored) ==
    /\ pg.pc = "marked"
    /\ IF stored
       THEN /\ nextId <= MaxId
            /\ LET c == pg.checked
                   data == UserTaskAttemptCreate_new(c.user.user_id, c.task.id,
                                                     c.answer.id, c.is_correct)
                   row == create_row("UserTaskAttempt", data, NewV4)
                   ent == create("UserTaskAttempt", data, row.id)
               IN /\ db' = [db EXCEPT !["UserTaskAttempt"] = Append(@, row)]
                  /\ created' = Append(created, ent.id)
                  /\ out' = [op |-> "tasks_check", ctx |-> pg.ctx,
                             req |-> pg.req, status |-> 200,
                             body |-> [is_correct |-> c.is_correct,
                                       explanation |-> c.task.explanation,
                                       image |-> image_url(c.answer.image)],
                             progress |-> pg.progress, attempt |-> Some(ent)]
            /\ nextId' = nextId + 1
       ELSE /\ db' = check_abort(db, pg.progress)
            /\ out' = [op |-> "tasks_check", ctx |-> pg.ctx, req |-> pg.req,
                       status |-> check_status("ResourceFetchError"),
                       progress |-> pg.progress, attempt |-> None]
            /\ UNCHANGED <<nextId, created>>
    /\ pg' = Idle
    /\ UNCHANGED <<deleted, held, sessions, scope, clock>>

-----------------------------------------------------------------------------
(* The lesson routes: POST /api/v1/lessons/{id}/done and                   *)
(* GET /api/v1/lessons/{id}/next                                           *)

\* the tables the lesson routes read and write
LessonScope == {"Module", "Lesson", "UserProgress"}

\* the ids of the stored modules and lessons, which create never issues, and
\* the id of no lesson
ModuleIds == {MaxId + 2, MaxId + 3}
LessonIds == {MaxId + 4, MaxId + 5, MaxId + 6}
NoLessonId == MaxId + 7

\* the order_index values of the stored lessons
LessonOrders == 0..2

\* the callers of the lesson routes, as the middleware resolved them
LessonCallers ==
    {None, Some(AuthenticatedUser_new(AdminRowId, "Admin")),
     Some(AuthenticatedUser_new(MaxId, "User"))}

\* the status column of user_progress read as the flag the queries take it
\* for: the row marks its lesson completed
status_done(status) == status = "done"

\* the rows of a table, as a set
RowsOf(kind) == {db[kind][i] : i \in 1..Len(db[kind])}

\* a query that also returns lessons of the same order_index, the lesson
\* asked about among them
find_next_uncompleted_ge(actor, lesson_id) ==
    LET cur == {l \in RowsOf("Lesson") : l.id = lesson_id}
        hits == {l \in RowsOf("Lesson") :
                   /\ \E m \in RowsOf("Module") : m.id = l.module_id
                   /\ \E c \in cur : /\ l.module_id = c.module_id
                                     /\ l.order_index >= c.order_index
                   /\ LET up == {u \in RowsOf("UserProgress") :
                                   /\ u.lesson_id = l.id
                                   /\ u.user_id = actor.user_id}
                      IN up = {} \/ \E u \in up : ~status_done(u.status)}
    IN {l \in hits : \A o \in hits : l.order_index <= o.order_index}

\* LessonWithStatusRow::find_next_uncompleted: the lessons the query's
\* ORDER BY l.order_index ASC LIMIT 1 can return, none when the set is empty.
\* A lesson row joins each user_progress row of the actor for it, or one
\* NULL row when there is none; COALESCE(up.status, FALSE) = FALSE keeps the
\* joined rows that are not completed.
find_next_uncompleted(actor, lesson_id) ==
    LET cur == {l \in RowsOf("Lesson") : l.id = lesson_id}
        hits == {l \in RowsOf("Lesson") :
                   /\ \E m \in RowsOf("Module") : m.id = l.module_id
                   /\ \E c \in cur : /\ l.module_id = c.module_id
                                     /\ l.order_index > c.order_index
                   /\ LET up == {u \in RowsOf("UserProgress") :
                                   /\ u.lesson_id = l.id
                                   /\ u.user_id = actor.user_id}
                      IN up = {} \/ \E u \in up : ~status_done(u.status)}
    IN {l \in hits : \A o \in hits : l.order_index <= o.order_index}

\* the row the query returns for a lesson: its columns and the status FALSE
\* that the WHERE clause left
LessonWithStatusRow(l) ==
    [id |-> l.id, module_id |-> l.module_id, title |-> l.title,
     content |-> l.content, status |-> FALSE]

\* POST /api/v1/lessons/{id}/done
LessonsMarkDone(ctx, id) ==
    /\ LessonScope \subseteq scope
    /\ IF ~ctx.some
       THEN /\ out' = [op |-> "lessons_done", ctx |-> ctx, id |-> id,
                       status |-> status_code("AuthenticationRequired")]
            /\ UNCHANGED <<db, nextId, created>>
       ELSE IF ~find_by_id("Lesson", id).some
       THEN /\ out' = [op |-> "lessons_done", ctx |-> ctx, id |-> id,
                       status |-> status_code("ResourceNotFound")]
            /\ UNCHANGED <<db, nextId, created>>
       ELSE /\ nextId <= MaxId
            /\ LET data == UserProgressCreate_new(ctx.val.user_id, id, TRUE)
                   row == create_row("UserProgress", data, NewV4)
               IN /\ db' = [db EXCEPT !["UserProgress"] = Append(@, row)]
                  /\ created' = Append(created, row.id)
            /\ nextId' = nextId + 1
            /\ out' = [op |-> "lessons_done", ctx |-> ctx, id |-> id,
                       status |-> 200]
    /\ UNCHANGED <<deleted, held, pg, sessions, scope, clock>>

\* GET /api/v1/lessons/{id}/next
LessonsGetNext(ctx, id) ==
    /\ LessonScope \subseteq scope
    /\ IF ~ctx.some
       THEN out' = [op |-> "lessons_next", ctx |-> ctx, id |-> id,
                    status |-> status_code("AuthenticationRequired"),
                    body |-> None]
       ELSE LET next == find_next_uncompleted(ctx.val, id)
            IN IF next = {}
               THEN out' = [op |-> "lessons_next", ctx |-> ctx, id |-> id,
                            status |-> status_code("ResourceNotFound"),
                            body |-> None]
               ELSE \E l \in next :
                       out' = [op |-> "lessons_next", ctx |-> ctx, id |-> id,
                               status |-> 200,
                               body |-> Some(LessonWithStatusRow(l))]
    /\ UNCHANGED <<db, nextId, created, deleted, held, pg, sessions, scope, clock>>

-----------------------------------------------------------------------------
(* Signup and account update statement by statement: each handler's        *)
(* find_by_username and its INSERT or UPDATE are two storage calls, and    *)
(* other requests run between them                                         *)

\* the bodies of the requests taken statement by statement
RaceBodies == [username : Usernames, password : {"pw"}]

\* user_signup_handler through its find_by_username
SignupLookup(payload) ==
    /\ "User" \in scope
    /\ pg.pc = "idle"
    /\ LET r == user_signup_handler(payload)
       IN IF ~r.ok
          THEN /\ out' = [op |-> "user_signup", payload |-> payload,
                          status |-> into_response(r.err).status,
                          error |-> into_response(r.err).body,
                          cookie |-> None]
               /\ pg' = pg
          ELSE /\ pg' = [pc |-> "signup", payload |-> payload, data |-> r.val]
               /\ out' = [op |-> "user_signup_lookup", payload |-> payload]
    /\ UNCHANGED <<db, nextId, created, deleted, held, sessions, scope, clock>>

\* user_signup_handler from UserEntity::create on
SignupInsert ==
    /\ pg.pc = "signup"
    /\ nextId <= MaxId
    /\ LET row == create_row("User", pg.data, NewV4)
           ent == create("User", pg.data, row.id)
       IN /\ db' = [db EXCEPT !["User"] = Append(@, row)]
          /\ created' = Append(created, ent.id)
          /\ sessions' = sessions \cup {ent.id}
          /\ out' = [op |-> "user_signup", payload |-> pg.payload,
                     status |-> 200, body |-> ent,
                     cookie |-> Some(auth_cookie(ent.id))]
    /\ nextId' = nextId + 1
    /\ pg' = Idle
    /\ UNCHANGED <<deleted, held, scope, clock>>

\* the middleware and user_update_handler through its find_by_username
UpdateLookup(cookie, id, payload) ==
    /\ "User" \in scope
    /\ pg.pc = "idle"
    /\ LET mw == extract_context_fn(cookie)
       IN IF ~mw.ok
          THEN /\ out' = [op |-> "user_update", cookie |-> cookie, id |-> id,
                          payload |-> payload, ctx |-> None,
                          found |-> find_by_id("User", id),
                          status |-> mw.err]
               /\ pg' = pg
          ELSE LET r == user_update_handler(mw.val, id, payload)
               IN IF ~r.upd.some
                  THEN /\ out' = [op |-> "user_update", cookie |-> cookie,
                                  id |-> id, payload |-> payload,
                                  ctx |-> mw.val,
                                  found |-> find_by_id("User", id),
                                  status |-> r.status, body |-> None]
                       /\ pg' = pg
                  ELSE /\ pg' = [pc |-> "update", cookie |-> cookie,
                                 id |-> id, payload |-> payload,
                                 ctx |-> mw.val, upd |-> r.upd.val]
                       /\ out' = [op |-> "user_update_lookup", id |-> id,
                                  payload |-> payload]
    /\ UNCHANGED <<db, nextId, created, deleted, held, sessions, scope, clock>>

\* user_update_handler from found.update on
UpdateWrite ==
    /\ pg.pc = "update"
    /\ db' = [db EXCEPT !["User"] =
                 UpdateWhereId(@, pg.upd.self.id, "User", pg.upd.data)]
    /\ out' = [op |-> "user_update", cookie |-> pg.cookie, id |-> pg.id,
               payload |-> pg.payload, ctx |-> pg.ctx,
               found |-> Some(pg.upd.self), status |-> 200,
               body |-> Some(update("User", pg.upd.self, pg.upd.data))]
    /\ pg' = Idle
    /\ UNCHANGED <<nextId, created, deleted, held, sessions, scope, clock>>

-----------------------------------------------------------------------------
(* The progress routes: POST /api/v1/progress/share and                    *)
(* GET /api/v1/progress/{token}, statement by statement                    *)

\* the tables the progress routes read and write
ProgressScope ==
    {"User", "Lesson", "UserProgress", "UserTaskAttempt", "ProgressToken"}

\* chrono::Duration::minutes(30), the life of a share token, in ticks
TokenTtl == 1

\* the callers of the share route, as the middleware resolved them
ShareCallers == {None, Some(AuthenticatedUser_new(AdminRowId, "Admin"))}

\* the tokens a GET can name: the ones generate_token returned, and another
TokenStrings == Ids \cup {MaxId + 1}

\* the four counts of a summary, issued together by try_join!
SummaryCounts ==
    {"total_lessons", "completed_lessons", "total_answers", "correct_answers"}

\* a cleanup that takes the tokens expiring at this very time as well
cleanup_expired_le(rows, now) ==
    SelectSeq(rows, LAMBDA r : ~(r.expires_at <= now))

\* ProgressToken::cleanup_expired: the rows that
\* DELETE FROM progress_tokens WHERE expires_at < now() leaves
cleanup_expired(rows, now) ==
    SelectSeq(rows, LAMBDA r : ~(r.expires_at < now))

\* ProgressToken::find_by_token: fetch_optional of the rows of that token
find_by_token(token) ==
    LET hits == {i \in 1..Len(db["ProgressToken"]) :
                   db["ProgressToken"][i].token = token}
    IN IF hits = {} THEN None
       ELSE Some(db["ProgressToken"][CHOOSE i \in hits : \A j \in hits : i <= j])

\* UserTaskAttempt::count_correct
count_correct(actor) ==
    Cardinality({i \in 1..Len(db["UserTaskAttempt"]) :
                    /\ db["UserTaskAttempt"][i].user_id = actor.user_id
                    /\ db["UserTaskAttempt"][i].is_correct})

\* UserProgress::count_completed: the completed progress rows of the actor
count_completed(actor) ==
    Cardinality({i \in 1..Len(db["UserProgress"]) :
                    /\ db["UserProgress"][i].user_id = actor.user_id
                    /\ status_done(db["UserProgress"][i].status)})

\* the query behind one count of the summary
summary_count(which, actor) ==
    CASE which = "total_lessons" -> count("Lesson", actor)
      [] which = "completed_lessons" -> count_completed(actor)
      [] which = "total_answers" -> count("UserTaskAttempt", actor)
      [] which = "correct_answers" -> count_correct(actor)

\* UserProgressResponse::new
UserProgressResponse_new(total_lessons, completed_lessons, correct_answers, total_answers, username) ==
    [total_lessons |-> total_lessons, completed_lessons |-> completed_lessons,
     correct_answers |-> correct_answers, total_answers |-> total_answers,
     username |-> username]

\* time passes
Tick ==
    /\ clock < MaxTime
    /\ clock' = clock + 1
    /\ UNCHANGED <<db, nextId, created, deleted, held, pg, sessions, out, scope>>

\* POST /api/v1/progress/share
ProgressShare(ctx) ==
    /\ ProgressScope \subseteq scope
    /\ IF ~ctx.some
       THEN /\ out' = [op |-> "progress_share", ctx |-> ctx,
                       status |-> status_code("AuthenticationRequired")]
            /\ UNCHANGED <<db, nextId, created>>
       ELSE /\ nextId <= MaxId
            /\ LET data == [user_id |-> ctx.val.user_id, token |-> NewV4,
                            expires_at |-> clock + TokenTtl]
                   row == create_row("ProgressToken", data, NewV4)
                   ent == create("ProgressToken", data, row.id)
               IN /\ db' = [db EXCEPT !["ProgressToken"] = Append(@, row)]
                  /\ created' = Append(created, ent.id)
                  /\ out' = [op |-> "progress_share", ctx |-> ctx,
                             status |-> 200, body |-> ent]
            /\ nextId' = nextId + 1
    /\ UNCHANGED <<deleted, held, pg, sessions, scope, clock>>

\* the second write of a task check of a user, running beside the summary
AttemptInsert(user_id, is_correct) ==
    /\ ProgressScope \subseteq scope
    /\ nextId <= MaxId
    /\ LET data == UserTaskAttemptCreate_new(user_id, SeedTask.id,
                                             SeedAnswers[1].id, is_correct)
           row == create_row("UserTaskAttempt", data, NewV4)
       IN /\ db' = [db EXCEPT !["UserTaskAttempt"] = Append(@, row)]
          /\ created' = Append(created, row.id)
          /\ out' = [op |-> "attempt", res |-> Ok(row)]
    /\ nextId' = nextId + 1
    /\ UNCHANGED <<deleted, held, pg, sessions, scope, clock>>

\* progress_get_handler, its first statement: the cleanup of expired tokens
ProgressCleanup(token) ==
    /\ ProgressScope \subseteq scope
    /\ pg.pc = "idle"
    /\ db' = [db EXCEPT !["ProgressToken"] = cleanup_expired(@, clock)]
    /\ pg' = [pc |-> "cleaned", token |-> token]
    /\ out' = [op |-> "progress_cleanup", token |-> token,
               res |-> Ok(rows_affected(db["ProgressToken"],
                                        db'["ProgressToken"]))]
    /\ UNCHANGED <<nextId, created, deleted, held, sessions, scope, clock>>

\* progress_get_handler from find_by_token to the lookup of the token's user:
\* 404 for no token, delete and 400 for an expired one, 404 for no user
ProgressLookup ==
    /\ pg.pc = "cleaned"
    /\ LET found == find_by_token(pg.token)
       IN IF ~found.some
          THEN /\ out' = [op |-> "progress_get", token |-> pg.token,
                          found |-> found, checked_at |-> clock,
                          status |-> check_status("ResourceNotFound"),
                          body |-> None]
               /\ pg' = Idle
               /\ UNCHANGED <<db, deleted>>
          ELSE IF found.val.expires_at < clock
          THEN /\ db' = [db EXCEPT !["ProgressToken"] =
                            SelectSeq2(@, found.val.id)]
               /\ deleted' = deleted \cup {<<"ProgressToken", found.val.id>>}
               /\ out' = [op |-> "progress_get", token |-> pg.token,
                          found |-> found, checked_at |-> clock,
                          status |-> check_status("UserBadRequest"),
                          body |-> None]
               /\ pg' = Idle
          ELSE LET token_user == find_by_id("User", found.val.user_id)
               IN /\ IF ~token_user.some
                     THEN /\ out' = [op |-> "progress_get",
                                     token |-> pg.token, found |-> found,
                                     checked_at |-> clock,
                                     status |-> check_status("ResourceNotFound"),
                                     body |-> None]
                          /\ pg' = Idle
                     ELSE /\ pg' = [pc |-> "counting", token |-> pg.token,
                                    found |-> found, checked_at |-> clock,
                                    target_user |-> token_user.val,
                                    counts |-> [w \in SummaryCounts |-> None]]
                          /\ out' = [op |-> "progress_lookup",
                                     token |-> pg.token]
                  /\ UNCHANGED <<db, deleted>>
    /\ UNCHANGED <<nextId, created, held, sessions, scope, clock>>

\* one of the four counts of try_join!, in whatever order the pool runs them;
\* the last to finish completes the join and the handler responds
ProgressCount(which) ==
    /\ pg.pc = "counting"
    /\ ~pg.counts[which].some
    /\ LET token_user == AuthenticatedUser_new(pg.target_user.id,
                                               UserEntity_role(pg.target_user))
           counts == [pg.counts EXCEPT
                         ![which] = Some(summary_count(which, token_user))]
       IN IF \E w \in SummaryCounts : ~counts[w].some
          THEN /\ pg' = [pg EXCEPT !.counts = counts]
               /\ out' = [op |-> "progress_count", which |-> which]
          ELSE /\ pg' = Idle
               /\ out' = [op |-> "progress_get", token |-> pg.token,
                          found |-> pg.found, checked_at |-> pg.checked_at,
                          status |-> 200,
                          body |-> Some(UserProgressResponse_new(
                                      counts["total_lessons"].val,
                                      counts["completed_lessons"].val,
                                      counts["correct_answers"].val,
                                      counts["total_answers"].val,
                                      pg.target_user.username))]
    /\ UNCHANGED <<db, nextId, created, deleted, held, sessions, scope, clock>>

-----------------------------------------------------------------------------
(* GET /api/v1/lessons/{id}/tasks: the tasks of a lesson with their answers *)

\* the tables the task listing reads
ListingScope == {"Lesson", "Task", "Answer"}

\* the answer texts of the stored answers
AnswerTexts == {"a", "b"}

\* a conversion that shows the text of every answer
TaskResponse_from_entity_show(task, answers) ==
    [id |-> task.id, question |-> task.question, task_type |-> task.task_type,
     answers |-> [i \in 1..Len(answers) |->
                    [id |-> answers[i].id,
                     answer_text |-> answers[i].answer_text]]]

\* TaskResponse::from_entity: an AnswerResponse is the answer's id and its
\* text, and serde leaves the text out when it is None, as it is for every
\* answer of a task of type "string_cmp"
TaskResponse_from_entity(task, answers) ==
    LET hide_text == task.task_type = "string_cmp"
    IN [id |-> task.id, question |-> task.question,
        task_type |-> task.task_type,
        answers |-> [i \in 1..Len(answers) |->
                       IF hide_text
                       THEN [id |-> answers[i].id]
                       ELSE [id |-> answers[i].id,
                             answer_text |-> answers[i].answer_text]]]

\* SELECT * FROM t WHERE column = $1 over the rows s, in storage order
RECURSIVE SelectTaskId(_, _)
SelectTaskId(s, task_id) ==
    IF s = <<>> THEN <<>>
    ELSE IF Head(s).task_id = task_id
         THEN <<Head(s)>> \o SelectTaskId(Tail(s), task_id)
         ELSE SelectTaskId(Tail(s), task_id)

RECURSIVE SelectLessonId(_, _)
SelectLessonId(s, lesson_id) ==
    IF s = <<>> THEN <<>>
    ELSE IF Head(s).lesson_id = lesson_id
         THEN <<Head(s)>> \o SelectLessonId(Tail(s), lesson_id)
         ELSE SelectLessonId(Tail(s), lesson_id)

\* the body of the listing over the given tables: find_all_by_lesson, then
\* find_all_by_task and from_entity for each task
tasks_listing(tasks, answers, lesson_id) ==
    LET found == SelectLessonId(tasks, lesson_id)
    IN [i \in 1..Len(found) |->
          TaskResponse_from_entity(found[i],
                                   SelectTaskId(answers, found[i].id))]

\* GET /api/v1/lessons/{id}/tasks
LessonsGetTasks(ctx, id) ==
    /\ ListingScope \subseteq scope
    /\ IF ~ctx.some
       THEN out' = [op |-> "lessons_tasks", ctx |-> ctx, id |-> id,
                    status |-> status_code("AuthenticationRequired"),
                    body |-> None]
       ELSE IF ~find_by_id("Lesson", id).some
       THEN out' = [op |-> "lessons_tasks", ctx |-> ctx, id |-> id,
                    status |-> status_code("ResourceNotFound"),
                    body |-> None]
       ELSE out' = [op |-> "lessons_tasks", ctx |-> ctx, id |-> id,
                    status |-> 200,
                    body |-> Some(tasks_listing(db["Task"], db["Answer"], id))]
    /\ UNCHANGED <<db, nextId, created, deleted, held, pg, sessions, scope, clock>>

-----------------------------------------------------------------------------
(* PaginatableRepository::page: list, then count, two statements *)

\* let items = T::list(mm, actor, limit, offset).await?
PageList(kind, actor, limit, offset) ==
    /\ kind \in scope
    /\ pg.pc = "idle"
    /\ pg' = [pc |-> "listed", kind |-> kind, actor |-> actor,
              limit |-> limit, offset |-> offset,
              items |-> list(kind, limit, offset),
              rows |-> Len(db[kind]), wrote |-> FALSE]
    /\ out' = [op |-> "list", kind |-> kind,
               res |-> Ok(list(kind, limit, offset))]
    /\ UNCHANGED <<db, nextId, created, deleted, held, sessions, scope, clock>>

\* let count = T::count(mm, actor).await?; Ok(Page::new(items, count, ..))
PageCount ==
    /\ pg.pc = "listed"
    /\ out' = [op |-> "page", kind |-> pg.kind, actor |-> pg.actor,
               res |-> Ok(Page_new(pg.items, count(pg.kind, pg.actor),
                                   pg.limit, pg.offset)),
               rows |-> pg.rows, wrote |-> pg.wrote]
    /\ pg' = Idle
    /\ UNCHANGED <<db, nextId, created, deleted, held, sessions, scope, clock>>

\* the actors a page is asked for: count reads the actor's id only
PageActors == {AuthenticatedUser_admin}
                \cup {AuthenticatedUser_new(u, "User") : u \in RefIds}

-----------------------------------------------------------------------------
(* Specifications *)

\* the repository contract: every entity kind's lifecycle
Next ==
    \/ \E kind \in Kinds : \E data \in Payloads(kind) : Create(kind, data)
    \/ \E kind \in Kinds, id \in AllIds : FindById(kind, id)
    \/ \E kind \in Updatable : \E data \in Payloads(kind) : Update(data)
    \/ Delete
    \/ \E kind \in Kinds, id \in AllIds : DeleteByOther(kind, id)

Spec == Init /\ [][Next]_vars

\* the writes of every table, with the account routes that sign in and delete
NextFinal ==
    \/ \E kind \in Kinds : \E data \in Payloads(kind) : Create(kind, data)
    \/ \E kind \in Updatable : \E data \in Payloads(kind) : Update(data)
    \/ Delete
    \/ \E kind \in Kinds, id \in AllIds : DeleteByOther(kind, id)
    \/ \E payload \in Bodies : Signin(payload)
    \/ \E cookie \in Cookies, id \in AllIds : UserDelete(cookie, id)

SpecFinal == Init /\ [][NextFinal]_vars

\* the account routes alone, over the users table
NextAccount ==
    \/ \E payload \in Bodies : Signup(payload)
    \/ \E payload \in Bodies : Signin(payload)
    \/ \E cookie \in Cookies, id \in AllIds :
          \E payload \in UpdateBodies :
             UserUpdate(cookie, id, payload)
    \/ \E cookie \in Cookies, id \in AllIds : UserDelete(cookie, id)

InitAccount == Init /\ scope = {"User"}

SpecAccount == InitAccount /\ [][NextAccount]_vars

\* the user list route, with the routes that create users and sessions
NextList ==
    \/ \E payload \in Bodies : Signup(payload)
    \/ \E payload \in Bodies : Signin(payload)
    \/ \E cookie \in Cookies, limit \in 0..MaxLimit, offset \in 0..MaxLimit :
          UserList(cookie, limit, offset)

SpecList == InitAccount /\ [][NextList]_vars

\* the role strings a users row can hold
RoleStrings == {"admin", "Admin", "ADMIN", "administrator", "user", ""}

\* UserEntity::role() of the loaded user: its stored string, decoded
RoleDecode ==
    /\ held.some
    /\ out' = [op |-> "decode", str |-> held.val.role,
               role |-> UserEntity_role(held.val)]
    /\ UNCHANGED <<db, nextId, created, deleted, held, pg, sessions, scope, clock>>

\* role.to_string() written to the loaded user, as UserEntity::create does
\* with UserRole::User
RoleEncode(role) ==
    /\ held.some
    /\ held' = Some([held.val EXCEPT !.role = UserRole_to_string(role)])
    /\ out' = [op |-> "encode", role |-> role,
               str |-> UserRole_to_string(role)]
    /\ UNCHANGED <<db, nextId, created, deleted, pg, sessions, scope, clock>>

\* a user loaded from a row of any id, username and role string
InitRole ==
    /\ scope = {"User"}
    /\ db = [k \in Kinds |-> IF k = "User" THEN <<SeededAdmin>> ELSE <<>>]
    /\ nextId = 1
    /\ created = <<>>
    /\ deleted = {}
    /\ held \in {Some([id |-> id, username |-> username,
                       password_hash |-> hash_password("pw"), role |-> str]) :
                    id \in AllIds, username \in Usernames \cup {"admin"},
                    str \in RoleStrings}
    /\ pg = Idle
    /\ sessions = {}
    /\ out = [op |-> "none"]
    /\ clock = 0

NextRole ==
    \/ RoleDecode
    \/ \E role \in UserRole : RoleEncode(role)

SpecRole == InitRole /\ [][NextRole]_vars

\* the lesson routes over two stored modules and three stored lessons: the
\* first opens the first module, the second is of either module and any
\* order_index, the third follows the first in its module
InitLesson ==
    /\ scope = LessonScope
    /\ \E m2 \in ModuleIds, o2 \in LessonOrders, o3 \in LessonOrders \ {0} :
          db = [k \in Kinds |->
                  CASE k = "User" -> <<SeededAdmin>>
                    [] k = "Module" ->
                         <<[id |-> MaxId + 2, title |-> "t",
                            description |-> "d", order_index |-> 0],
                           [id |-> MaxId + 3, title |-> "t",
                            description |-> "d", order_index |-> 0]>>
                    [] k = "Lesson" ->
                         <<[id |-> MaxId + 4, module_id |-> MaxId + 2,
                            title |-> "t", content |-> "c",
                            order_index |-> 0],
                           [id |-> MaxId + 5, module_id |-> m2,
                            title |-> "t", content |-> "c",
                            order_index |-> o2],
                           [id |-> MaxId + 6, module_id |-> MaxId + 2,
                            title |-> "t", content |-> "c",
                            order_index |-> o3]>>
                    [] OTHER -> <<>>]
    /\ nextId = 1
    /\ created = <<>>
    /\ deleted = {}
    /\ held = None
    /\ pg = Idle
    /\ sessions = {}
    /\ out = [op |-> "none"]
    /\ clock = 0

NextLesson ==
    \/ \E ctx \in LessonCallers, id \in LessonIds \cup {NoLessonId} :
          LessonsMarkDone(ctx, id)
    \/ \E ctx \in LessonCallers, id \in LessonIds \cup {NoLessonId} :
          LessonsGetNext(ctx, id)

SpecLesson == InitLesson /\ [][NextLesson]_vars

\* signup and account update statement by statement, with whole signups of
\* other requests in between
NextRace ==
    \/ \E payload \in RaceBodies : SignupLookup(payload)
    \/ SignupInsert
    \/ \E cookie \in Cookies, id \in AllIds, payload \in RaceBodies :
          UpdateLookup(cookie, id, payload)
    \/ UpdateWrite
    \/ \E payload \in RaceBodies : Signup(payload)

SpecRace == InitAccount /\ [][NextRace]_vars

\* the progress routes as time passes, beside the attempts the
\* administrator's task checks record
InitProgress ==
    /\ scope = ProgressScope
    /\ db = [k \in Kinds |-> IF k = "User" THEN <<SeededAdmin>> ELSE <<>>]
    /\ nextId = 1
    /\ created = <<>>
    /\ deleted = {}
    /\ held = None
    /\ pg = Idle
    /\ sessions = {}
    /\ out = [op |-> "none"]
    /\ clock = 0

NextProgress ==
    \/ Tick
    \/ \E ctx \in ShareCallers : ProgressShare(ctx)
    \/ \E is_correct \in BOOLEAN : AttemptInsert(AdminRowId, is_correct)
    \/ \E token \in TokenStrings : ProgressCleanup(token)
    \/ ProgressLookup
    \/ \E which \in SummaryCounts : ProgressCount(which)

SpecProgress == InitProgress /\ [][NextProgress]_vars

\* the task listing over a stored lesson with two tasks of any type and two
\* answers of any task, text and flag
InitListing ==
    /\ scope = ListingScope
    /\ \E types \in [1..2 -> TaskTypes],
          of \in [1..2 -> {MaxId + 3, MaxId + 4}],
          texts \in [1..2 -> AnswerTexts],
          flags \in [1..2 -> BOOLEAN] :
          db = [k \in Kinds |->
                  CASE k = "User" -> <<SeededAdmin>>
                    [] k = "Lesson" ->
                         <<[id |-> MaxId + 2, module_id |-> 1, title |-> "t",
                            content |-> "c", order_index |-> 0]>>
                    [] k = "Task" ->
                         [i \in 1..2 |->
                            [id |-> MaxId + 2 + i, lesson_id |-> MaxId + 2,
                             task_type |-> types[i], question |-> "q",
                             explanation |-> "e"]]
                    [] k = "Answer" ->
                         [i \in 1..2 |->
                            [id |-> MaxId + 4 + i, task_id |-> of[i],
                             answer_text |-> texts[i], image |-> "i",
                             is_correct |-> flags[i]]]
                    [] OTHER -> <<>>]
    /\ nextId = 1
    /\ created = <<>>
    /\ deleted = {}
    /\ held = None
    /\ pg = Idle
    /\ sessions = {}
    /\ out = [op |-> "none"]
    /\ clock = 0

NextListing ==
    \E ctx \in LessonCallers, id \in {MaxId + 2, MaxId + 3} :
       LessonsGetTasks(ctx, id)

SpecListing == InitListing /\ [][NextListing]_vars

\* the task check route over a stored task and its answers
InitCheck ==
    /\ scope = CheckScope
    /\ \E task_type \in TaskTypes :
          db = [k \in Kinds |->
                  CASE k = "User" -> <<SeededAdmin>>
                    [] k = "Task" ->
                         <<[SeedTask EXCEPT !.task_type = task_type]>>
                    [] k = "Answer" -> SeedAnswers
                    [] OTHER -> <<>>]
    /\ nextId = 1
    /\ created = <<>>
    /\ deleted = {}
    /\ held = None
    /\ pg = Idle
    /\ sessions = {}
    /\ out = [op |-> "none"]
    /\ clock = 0

NextCheck ==
    \/ \E ctx \in CheckCallers, req \in CheckRequests, stored \in BOOLEAN :
          TasksCheckMark(ctx, req, stored)
    \/ \E stored \in BOOLEAN : TasksCheckAttempt(stored)

SpecCheck == InitCheck /\ [][NextCheck]_vars

\* the ownership gate, applied to entities as create returns them
NextGate ==
    \/ \E kind \in Kinds : \E data \in Payloads(kind) : Create(kind, data)
    \/ \E ctx \in Actors : \E expected \in RefIds \cup {ctx.user_id} :
          CheckAccess(ctx, expected)
    \/ \E ctx \in Actors, lookup \in OwnerLookups :
          \E expected \in RefIds \cup {ctx.user_id} :
             CheckAccessAny(ctx, lookup, expected)

SpecGate == Init /\ [][NextGate]_vars

\* pages of every paginatable kind, with other requests' creates and deletes
NextPage ==
    \/ \E kind \in Paginatable : \E data \in PagePayloads(kind) :
          Create(kind, data)
    \/ \E kind \in Paginatable, id \in AllIds : DeleteByOther(kind, id)
    \/ \E kind \in Paginatable, actor \in PageActors :
          \E limit \in 0..MaxLimit, offset \in 0..MaxLimit :
             PageList(kind, actor, limit, offset)
    \/ PageCount

\* a page reads one table
InitPage == Init /\ \E kind \in Paginatable : scope = {kind}

SpecPage == InitPage /\ [][NextPage]_vars

-----------------------------------------------------------------------------
(* The authorization gate (SpecGate) *)

\* the last step was a check_access call
Gated == out.op = "check_access"

C2_OwnershipGate ==
    Gated /\ out.ctx.user_role # "Admin" /\ out.lookup.ok =>
        /\ out.res.ok <=> out.lookup.val = out.expected
        /\ ~out.res.ok => out.res = Err("Forbidden")

\* a non-admin actor was refused on an entity of the tables whose owner is
\* not the expected one
C2_Witness ==
    /\ Gated /\ out.kind \in Owned
    /\ out.ctx.user_role = "User"
    /\ out.lookup.ok /\ out.lookup.val # out.expected
    /\ out.res = Err("Forbidden")

\* Scenario A: Lesson L is stored under the stored Module M, and an actor of
\* role User whose id is not M.id calls check_access on L
ScenarioA ==
    /\ Gated /\ out.kind = "Lesson"
    /\ find_by_id("Module", out.resource.module_id).some
    /\ find_by_id("Lesson", out.resource.id) = Some(out.resource)
    /\ out.ctx.user_role = "User"
    /\ out.ctx.user_id # out.resource.module_id

\* C3 as stated: in Scenario A, with expected_owner = M.id, the caller
\* receives Forbidden.
C3_ScenarioA_Forbidden ==
    ScenarioA /\ out.expected = out.resource.module_id =>
        out.res = Err("Forbidden")

\* C3, amended: in Scenario A the caller's id takes no part in the decision:
\* with expected_owner = M.id the call returns Ok, and it returns Forbidden
\* exactly when the expected owner passed is not M.id, as when the caller
\* passes its own id.
C3_ScenarioA_Ok ==
    ScenarioA =>
        /\ out.expected = out.resource.module_id => out.res = Ok(Unit)
        /\ out.expected # out.resource.module_id => out.res = Err("Forbidden")
        /\ out.expected = out.ctx.user_id => out.res = Err("Forbidden")

\* Scenario A has happened with expected_owner = M.id
C3_Witness ==
    ScenarioA /\ out.expected = out.resource.module_id /\ out.res.ok

-----------------------------------------------------------------------------
(* The account routes (SpecAccount) *)

\* the last request was a PUT or DELETE of /api/v1/account/{id} that passed
\* the middleware with an authenticated caller and found the row of {id}
AccountGated ==
    /\ out.op \in {"user_update", "user_delete"}
    /\ out.ctx.some
    /\ out.found.some

\* the caller of the last request is Admin or is the user {id}
AccountAllowed ==
    out.ctx.val.user_role = "Admin" \/ out.ctx.val.user_id = out.id

\* C4: on PUT and DELETE /api/v1/account/{id} of an existing row, an
\* authenticated caller passes authorization (the handler goes on to its
\* write, or to the username conflict of PUT) exactly when it is Admin or
\* its id is {id}; every other authenticated caller receives 403 and the
\* row of {id} is afterwards what it was before the request.
C4_AccountGate ==
    AccountGated =>
        /\ AccountAllowed <=> out.status \in {200, 409}
        /\ ~AccountAllowed =>
              /\ out.status = 403
              /\ find_by_id("User", out.id) = out.found

\* a signed-in user that is not Admin asked to change another user's row
\* and was refused
C4_Witness ==
    /\ AccountGated /\ out.op = "user_update"
    /\ out.ctx.val.user_role = "User"
    /\ out.ctx.val.user_id # out.id
    /\ out.status = 403

-----------------------------------------------------------------------------
(* The repository contract (Spec, SpecFinal) *)

\* C5: right after create returns e, find_by_id(e.id) returns Some(e), equal
\* field for field, for every entity kind and payload, the fields that
\* create defaults included.
C5_CreateRoundTrip ==
    out.op = "create" =>
        find_by_id(out.kind, out.res.val.id) = Some(out.res.val)

\* a module was created with no order_index given and reads back with 0
C5_Witness ==
    /\ out.op = "create" /\ out.kind = "Module"
    /\ ~out.data.order_index.some
    /\ find_by_id("Module", out.res.val.id).some
    /\ find_by_id("Module", out.res.val.id).val.order_index = 0

\* P3: no row carries the id of a row deleted from its table
DeletedStayGone ==
    \A p \in deleted : ~find_by_id(p[1], p[2]).some

\* C6 as stated: once delete(e) has returned Ok, find_by_id(e.id) is None in
\* every later state, and a later DELETE /api/v1/account/{id} of a deleted
\* user id, sent with a token this server issued, answers 404.
C6_DeleteFinal_404 ==
    /\ DeletedStayGone
    /\ out.op = "user_delete" /\ out.gone /\ out.cookie.k = "token" =>
          out.status = 404

\* C6, amended: once delete(e) has returned Ok, find_by_id(e.id) is None in
\* every later state; a later DELETE of a deleted user id answers 404 when
\* the caller's own row still exists, 401 when the caller has no cookie or
\* its token names a deleted user (the deleted user itself included), 400
\* when the cookie does not verify, and never deletes anything.
C6_DeleteFinal ==
    /\ DeletedStayGone
    /\ out.op = "user_delete" /\ out.gone =>
          /\ ~out.found.some
          /\ out.status = (IF out.cookie.k = "invalid" THEN 400
                           ELSE IF out.ctx.some THEN 404 ELSE 401)

\* a user was deleted and a caller that is still signed in asked for the
\* same DELETE again
C6_Witness ==
    /\ out.op = "user_delete" /\ out.gone
    /\ out.ctx.some /\ out.status = 404
    /\ <<"User", out.id>> \in deleted

\* C7: every create returns an id different from the id of every earlier
\* create, those of rows since deleted included, and no table holds two rows
\* of one id.
C7_IdUnique ==
    /\ \A i, j \in 1..Len(created) : i # j => created[i] # created[j]
    /\ \A kind \in Kinds : \A i, j \in 1..Len(db[kind]) :
          i # j => db[kind][i].id # db[kind][j].id

\* a row was created after the deletion of an earlier created row
C7_Witness ==
    /\ out.op = "create"
    /\ Len(created) >= 2
    /\ \E p \in deleted : p[2] = created[1]

\* the field an update payload may leave out, for the kinds that have one
DefaultedField(kind) ==
    IF kind = "Answer" THEN "is_correct" ELSE "order_index"

\* the default update stores in place of a field left out
DefaultOf(kind) == IF kind = "Answer" THEN FALSE ELSE 0

\* the last step was an update of a Module, a Lesson or an Answer whose
\* payload leaves the optional field out
UpdatedWithNone ==
    /\ out.op = "update"
    /\ out.kind \in {"Module", "Lesson", "Answer"}
    /\ ~out.data[DefaultedField(out.kind)].some

\* C10: an update of a Module, Lesson or Answer whose payload leaves
\* order_index (is_correct for Answer) out stores the default 0 (false) in
\* the row, whatever the field held before, and returns an entity that
\* carries the same default.
C10_UpdateReplaces ==
    UpdatedWithNone =>
        /\ out.res.val[DefaultedField(out.kind)] = DefaultOf(out.kind)
        /\ \A r \in Rows(out.kind) :
              r.id = out.self.id =>
                  r[DefaultedField(out.kind)] = DefaultOf(out.kind)

\* a stored module of order_index 1 was updated with no order_index given
C10_Witness ==
    /\ UpdatedWithNone /\ out.kind = "Module"
    /\ out.self.order_index = 1
    /\ find_by_id("Module", out.self.id).some

-----------------------------------------------------------------------------
(* Pagination (SpecPage) *)

Max(a, b) == IF a > b THEN a ELSE b

\* the last step completed a page
Paged == out.op = "page"

\* the number of items a page of limit L at offset O holds of N rows
PageLen(N, L, O) == Min(L, Max(0, N - O))

\* C8 as stated: for each of the six paginatable kinds, every actor and a
\* table of N rows not written during the page, page(actor, L, O) returns
\* total = N and min(L, max(0, N - O)) items.
C8_PageConsistent ==
    Paged /\ ~out.wrote =>
        /\ out.res.val.total = out.rows
        /\ Len(out.res.val.items) =
              PageLen(out.rows, out.res.val.limit, out.res.val.offset)

\* the rows of user_task_attempts that belong to the actor
OwnAttempts(actor) ==
    {i \in 1..Len(db["UserTaskAttempt"]) :
        db["UserTaskAttempt"][i].user_id = actor.user_id}

\* C8, amended: with no write during the page, page(actor, L, O) returns
\* min(L, max(0, N - O)) items for all six kinds; total = N for User,
\* Module, Lesson, Answer and UserProgress, while for UserTaskAttempt total
\* is the number of attempts whose user_id is the actor's id, the items
\* being drawn from the attempts of every user.
C8_PageConsistent_Scoped ==
    Paged /\ ~out.wrote =>
        /\ Len(db[out.kind]) = out.rows
        /\ out.res.val.items =
              list(out.kind, out.res.val.limit, out.res.val.offset)
        /\ Len(out.res.val.items) =
              PageLen(out.rows, out.res.val.limit, out.res.val.offset)
        /\ out.kind # "UserTaskAttempt" => out.res.val.total = out.rows
        /\ out.kind = "UserTaskAttempt" =>
              out.res.val.total = Cardinality(OwnAttempts(out.actor))

\* a page of attempts, none written meanwhile, whose total is not the
\* number of rows of the table
C8_Witness ==
    /\ Paged /\ ~out.wrote
    /\ out.kind = "UserTaskAttempt"
    /\ out.rows > 0
    /\ out.res.val.total # out.rows

\* C9: a page's items are those of the table when list ran and its total
\* is the count of the table when count ran, after any write between the
\* two; the page never holds more than limit items; and with no write
\* between the two, items and total are the list and the count of one and
\* the same table.
C9_PageTwoQueries ==
    Paged =>
        /\ Len(out.res.val.items) <= out.res.val.limit
        /\ Len(out.res.val.items) =
              PageLen(out.rows, out.res.val.limit, out.res.val.offset)
        /\ out.res.val.total = count(out.kind, out.actor)
        /\ ~out.wrote =>
              /\ out.res.val.items =
                    list(out.kind, out.res.val.limit, out.res.val.offset)
              /\ Len(db[out.kind]) = out.rows

\* a row was deleted between list and count: the page holds more items than
\* its total
C9_Witness ==
    /\ Paged /\ out.wrote
    /\ out.kind = "Module"
    /\ out.res.val.total < out.rows
    /\ Len(out.res.val.items) > out.res.val.total

-----------------------------------------------------------------------------
(* Writes on a row that is gone (Spec) *)

\* the last step was an update through an entity whose row had been deleted
UpdatedVanished ==
    /\ out.op = "update"
    /\ <<out.kind, out.self.id>> \in deleted

\* C11: update on an entity whose row was deleted between the load and the
\* write fails with a storage error: it does not return Ok with an updated
\* entity, and it does not re-create the row.
C11_UpdateVanishedFails ==
    UpdatedVanished =>
        /\ ~out.res.ok
        /\ ~find_by_id(out.kind, out.self.id).some

\* this step is self.delete on an entity whose row is already gone
DeleteOfGone ==
    /\ held.some
    /\ ~find_by_id(held.val.kind, held.val.ent.id).some
    /\ held' = None
    /\ out'.op = "delete"

\* C12: delete of an entity whose row is already gone runs its statement,
\* which affects no row, returns Ok(()) and leaves every table as it was.
C12_DeleteGoneOk ==
    [][DeleteOfGone =>
          /\ out'.affected = 0
          /\ out'.res = Ok(Unit)
          /\ db' = db]_vars

\* a delete ran through an entity whose row another request had deleted
C12_Witness ==
    /\ out.op = "delete"
    /\ out.affected = 0
    /\ out.res.ok
    /\ <<out.kind, out.id>> \in deleted

-----------------------------------------------------------------------------
(* Signup and signin (SpecAccount) *)

\* the stored users of a username
UsersNamed(username) == {r \in Rows("User") : r.username = username}

\* the cookie of a response is the SID cookie of user id, HttpOnly,
\* SameSite=Lax, path "/"
IsSidCookie(cookie, id) ==
    /\ cookie.some
    /\ cookie.val.name = "SID"
    /\ cookie.val.value = [k |-> "token", sub |-> id]
    /\ cookie.val.http_only
    /\ cookie.val.same_site = "Lax"
    /\ cookie.val.path = "/"

\* C13: a signup whose username belongs to a stored user answers 409,
\* creates no row and sets no session; a signup with a fresh username
\* answers 200, appends exactly one user row, of that username, and sets the
\* SID cookie (HttpOnly, SameSite=Lax, path "/") of the new user.
C13_Signup ==
    [][out'.op = "user_signup" =>
          IF UsersNamed(out'.payload.username) # {}
          THEN /\ out'.status = 409
               /\ db' = db
               /\ sessions' = sessions
               /\ ~out'.cookie.some
          ELSE /\ out'.status = 200
               /\ Len(db'["User"]) = Len(db["User"]) + 1
               /\ SubSeq(db'["User"], 1, Len(db["User"])) = db["User"]
               /\ \A kind \in Kinds \ {"User"} : db'[kind] = db[kind]
               /\ {r \in {db'["User"][i] : i \in 1..Len(db'["User"])} :
                       r.username = out'.payload.username} = {out'.body}
               /\ IsSidCookie(out'.cookie, out'.body.id)
               /\ sessions' = sessions \cup {out'.body.id}]_vars

\* a username was signed up a second time and refused
C13_Witness ==
    /\ out.op = "user_signup"
    /\ out.status = 409
    /\ out.payload.username # "admin"
    /\ Cardinality(UsersNamed(out.payload.username)) = 1

-----------------------------------------------------------------------------
(* The user list route (SpecList) *)

-----------------------------------------------------------------------------
(* The update and delete routes (SpecAccount) *)

\* the users table after this step is the one before it with the row of id
\* renamed to username and nothing else changed
Renamed(id, username) ==
    /\ Len(db'["User"]) = Len(db["User"])
    /\ \A i \in 1..Len(db["User"]) :
          db'["User"][i] =
              IF db["User"][i].id = id
              THEN [db["User"][i] EXCEPT !.username = username]
              ELSE db["User"][i]
    /\ \A kind \in Kinds \ {"User"} : db'[kind] = db[kind]

\* C16: a PUT /api/v1/account/{id} by a caller that passes authorization
\* answers 409 and changes no row when the new username is held by any
\* stored user, the target included; when no stored user holds it, it
\* answers 200 and the target row's username becomes the new one, nothing
\* else changing.
C16_UpdateConflict ==
    [][out'.op = "user_update" /\ out'.ctx.some /\ out'.found.some
         /\ (out'.ctx.val.user_role = "Admin"
               \/ out'.ctx.val.user_id = out'.id) =>
          IF UsersNamed(out'.payload.username) # {}
          THEN out'.status = 409 /\ db' = db
          ELSE /\ out'.status = 200
               /\ Renamed(out'.id, out'.payload.username)
               /\ out'.body.some
               /\ out'.body.val.username = out'.payload.username]_vars

\* a user asked for a username that another stored user holds
C16_Witness ==
    /\ AccountGated /\ out.op = "user_update"
    /\ AccountAllowed
    /\ out.status = 409
    /\ \E r \in UsersNamed(out.payload.username) : r.id # out.id
    /\ find_by_id("User", out.id) = out.found

\* the status the fixed order of checks gives the request of this step:
\* authentication, existence, authorization, then for PUT the username
\* conflict, the first that fails deciding
StatusInOrder ==
    IF ~out'.ctx.some THEN 401
    ELSE IF ~out'.found.some THEN 404
    ELSE IF ~(out'.ctx.val.user_role = "Admin"
                \/ out'.ctx.val.user_id = out'.id) THEN 403
    ELSE IF out'.op = "user_update"
              /\ UsersNamed(out'.payload.username) # {} THEN 409
    ELSE 200

\* C17: PUT and DELETE /api/v1/account/{id} answer by the first failing
\* check of authentication (401), existence (404), authorization (403) and,
\* for PUT, username conflict (409); so an id with no user row gets 404 for
\* every authenticated caller, Admin included; and when a check fails no
\* row is written or deleted.
C17_CheckOrder ==
    [][out'.op \in {"user_update", "user_delete"}
         /\ out'.cookie.k # "invalid" =>
          /\ out'.status = StatusInOrder
          /\ out'.found = find_by_id("User", out'.id)
          /\ StatusInOrder # 200 => db' = db /\ deleted' = deleted]_vars

\* a caller of role User asked to change a row that does not exist and is
\* not its own: existence was decided before authorization
C17_Witness ==
    /\ out.op = "user_update"
    /\ out.ctx.some /\ out.ctx.val.user_role = "User"
    /\ out.ctx.val.user_id # out.id
    /\ ~out.found.some
    /\ out.status = 404

-----------------------------------------------------------------------------
(* The task check route (SpecCheck) *)

\* C18: when the second write of a task check, the INSERT of the attempt,
\* fails, the request answers an error, no table changes in that step, so a
\* progress row the first write stored stays stored, and the request ends
\* there without another try.
C18_NoRollback ==
    [][pg.pc = "marked" /\ out'.op = "tasks_check" /\ ~out'.attempt.some =>
          /\ out'.status = 500
          /\ db' = db
          /\ pg.progress.some =>
                find_by_id("UserProgress", pg.progress.val.id) = pg.progress
          /\ pg' = Idle]_vars

\* a correct answer's progress row was stored, the attempt's INSERT failed
\* and the request answered 500 with the progress row still in its table
C18_Witness ==
    /\ out.op = "tasks_check"
    /\ out.status = 500
    /\ out.progress.some
    /\ ~out.attempt.some
    /\ find_by_id("UserProgress", out.progress.val.id) = out.progress
    /\ db["UserTaskAttempt"] = <<>>

-----------------------------------------------------------------------------
(* The actor of a request (SpecAccount) *)

\* every value the SID cookie of a request can take: absent, not verifying,
\* or a signed token of any subject, issued or not, Uuid::max() included
AnyCookies ==
    {[k |-> "none"], [k |-> "invalid"]}
        \cup {[k |-> "token", sub |-> u] : u \in AllIds \cup {UuidMax}}

\* C19: whatever the SID cookie, the actor the middleware attaches is never
\* the sentinel (id Uuid::max(), role Admin): its id is the token's subject
\* and the id of a stored user row, and its role is Admin only if that row's
\* role string is "admin"; the actor a handled request ran under was not the
\* sentinel either.
C19_NoSentinel ==
    /\ \A cookie \in AnyCookies :
          LET r == extract_context_fn(cookie)
          IN r.ok /\ r.val.some =>
                /\ r.val.val # AuthenticatedUser_admin
                /\ r.val.val.user_id # UuidMax
                /\ r.val.val.user_id = cookie.sub
                /\ \E i \in 1..Len(db["User"]) :
                      /\ db["User"][i].id = r.val.val.user_id
                      /\ r.val.val.user_role = "Admin" =>
                            db["User"][i].role = "admin"
    /\ out.op \in {"user_update", "user_delete", "user_list"} /\ out.ctx.some =>
          /\ out.ctx.val # AuthenticatedUser_admin
          /\ out.ctx.val.user_id = out.cookie.sub
          /\ out.ctx.val.user_id \in AllIds

\* a request was handled under an Admin actor the middleware resolved from
\* the token of the stored administrator row, while the token of a deleted
\* user resolves to no actor
C19_Witness ==
    /\ out.op = "user_delete"
    /\ out.status = 200
    /\ out.ctx = Some(AuthenticatedUser_new(AdminRowId, "Admin"))
    /\ find_by_id("User", AdminRowId).some
    /\ find_by_id("User", AdminRowId).val.role = "admin"
    /\ \E u \in sessions :
          /\ ~find_by_id("User", u).some
          /\ extract_context_fn([k |-> "token", sub |-> u]) = Ok(None)

-----------------------------------------------------------------------------
(* Role decoding and encoding (SpecRole) *)

\* C20: decoding a stored role string gives Admin for exactly "admin" and
\* User for every other string, always a role and never an error; the string
\* a role encodes to decodes back to that role, for Admin and for User.
C20_RoleCodec ==
    /\ out.op = "decode" =>
          /\ out.role \in UserRole
          /\ out.role = "Admin" <=> out.str = "admin"
          /\ out.role = "User" <=> out.str # "admin"
    /\ out.op = "encode" => UserEntity_role(held.val) = out.role
    /\ \A role \in UserRole : UserRole_from(UserRole_to_string(role)) = role

\* the string "Admin", differing from "admin" by case only, was decoded, to
\* User
C20_Witness ==
    /\ out.op = "decode"
    /\ out.str = "Admin"
    /\ out.role = "User"

-----------------------------------------------------------------------------
(* What an account update leaves alone (SpecAccount) *)

\* C21: a PUT /api/v1/account/{id} leaves the password hash and the role of
\* every stored user as they were, whatever it answers; when it answers 200,
\* a signin with the new username and a password that verified against the
\* target's hash before the update succeeds, as that user.
C21_UpdateKeepsHash ==
    [][out'.op = "user_update" =>
          /\ Len(db'["User"]) = Len(db["User"])
          /\ \A i \in 1..Len(db["User"]) :
                /\ db'["User"][i].id = db["User"][i].id
                /\ db'["User"][i].password_hash = db["User"][i].password_hash
                /\ db'["User"][i].role = db["User"][i].role
          /\ out'.status = 200 =>
                \A p \in Bodies :
                   /\ p.username = out'.payload.username
                   /\ verify_password(out'.found.val.password_hash, p.password)
                   => /\ (user_signin_handler(p).ok)'
                      /\ (user_signin_handler(p).val.id)' = out'.id]_vars

\* a user stored as alice with the hash of "pw" was renamed to bob: the row
\* keeps that hash and its role, and bob signs in with "pw"
C21_Witness ==
    /\ out.op = "user_update"
    /\ out.status = 200
    /\ out.found.some
    /\ out.found.val.username = "alice"
    /\ out.found.val.password_hash = hash_password("pw")
    /\ find_by_id("User", out.id) =
          Some([out.found.val EXCEPT !.username = "bob"])
    /\ user_signin_handler([username |-> "bob", password |-> "pw"]).ok

-----------------------------------------------------------------------------
(* The next lesson (SpecLesson) *)

\* the caller has completed the lesson: a progress row of the caller for it
\* is marked done
Completed(user_id, lesson_id) ==
    \E u \in RowsOf("UserProgress") :
       u.user_id = user_id /\ u.lesson_id = lesson_id /\ status_done(u.status)

\* the lessons after lesson id in its module that the caller has not
\* completed
LaterUncompleted(user_id, id) ==
    {l \in RowsOf("Lesson") :
       /\ \E c \in RowsOf("Lesson") : /\ c.id = id
                                       /\ l.module_id = c.module_id
                                       /\ l.order_index > c.order_index
       /\ ~Completed(user_id, l.id)}

-----------------------------------------------------------------------------
(* What a task check records (SpecCheck) *)

\* the step is the first part of a check that goes on to its second write
CheckMarks == pg.pc = "idle" /\ pg'.pc = "marked"

\* the step is the second part of a check, answering 200
CheckAnswers200 ==
    pg.pc = "marked" /\ out'.op = "tasks_check" /\ out'.status = 200

-----------------------------------------------------------------------------
(* The administrators (SpecAccount) *)

\* the ids of the stored users whose role is admin
AdminUsers == {r.id : r \in {u \in RowsOf("User") : u.role = "admin"}}

\* C24 as stated: the set of admin users is the same in every reachable
\* state, the one of the initial state.
C24_AdminsConstant == AdminUsers = {SeededAdmin.id}

\* C24: no account request creates a user row of role admin or changes the
\* role of a stored row, so the set of admin users never gains a member: a
\* stored user is an admin only if it is the administrator the store started
\* with, and every row a signup created has the role "user". The set can
\* lose a member: DELETE /api/v1/account/{id} deletes an administrator's row
\* like any other.
C24_NoNewAdmin ==
    /\ AdminUsers \subseteq {SeededAdmin.id}
    /\ \A r \in RowsOf("User") :
          IF r.id = SeededAdmin.id THEN r.role = SeededAdmin.role
                                   ELSE r.role = "user"

\* a user who signed up and was renamed by the administrator is stored with
\* the role "user", the administrator still being the only admin
C24_Witness ==
    /\ out.op = "user_update"
    /\ out.status = 200
    /\ out.ctx.val.user_role = "Admin"
    /\ out.id \in Ids
    /\ find_by_id("User", out.id).val.role = "user"
    /\ AdminUsers = {SeededAdmin.id}

-----------------------------------------------------------------------------
(* Tokens of deleted users (SpecAccount) *)

\* the request of this step carries the token of a user whose row was
\* deleted before the request
TokenOfDeleted ==
    /\ out'.op \in {"user_update", "user_delete"}
    /\ out'.cookie.k = "token"
    /\ <<"User", out'.cookie.sub>> \in deleted

\* C25: a request that carries the token of a user whose row has been
\* deleted is resolved as anonymous: the handler, which requires a user,
\* answers 401 and no table changes.
C25_DeletedIsAnonymous ==
    [][TokenOfDeleted =>
          /\ ~out'.ctx.some
          /\ out'.status = 401
          /\ db' = db
          /\ deleted' = deleted]_vars

\* a user deleted its account and then asked, with the token it still holds,
\* to rename a stored user: 401, the target as it was
C25_Witness ==
    /\ out.op = "user_update"
    /\ out.cookie.k = "token"
    /\ out.cookie.sub \in sessions
    /\ <<"User", out.cookie.sub>> \in deleted
    /\ out.status = 401
    /\ out.found.some
    /\ find_by_id("User", out.id) = out.found

-----------------------------------------------------------------------------
(* Usernames under concurrent requests (SpecRace) *)

\* C26: in every reachable state no two user rows share a username, the
\* signup and account-update requests running statement by statement.
C26_UsernamesUnique ==
    \A i, j \in 1..Len(db["User"]) :
       i # j => db["User"][i].username # db["User"][j].username

-----------------------------------------------------------------------------
(* Expired share tokens (SpecProgress) *)

\* the step is the cleanup that opens a GET /api/v1/progress/{token}
Cleans == pg.pc = "idle" /\ pg'.pc = "cleaned"

\* the step is the expiry check of a GET, with the row find_by_token returns
Checks == pg.pc = "cleaned" /\ pg'.pc # "cleaned"

\* C27: a GET /api/v1/progress/{token} gives no summary for a token that is
\* expired at its expiry check. Its cleanup removes every token row whose
\* expires_at is earlier than the time of the cleanup and no other row; at
\* the check, a token with no row is answered 404, and one whose expires_at
\* is earlier than the time of the check has its row deleted and is answered
\* 400; a summary, whenever it is returned, is of a token that was not
\* expired when checked.
C27_NoExpiredSummary ==
    [][/\ Cleans =>
             /\ \A r \in RowsOf("ProgressToken") :
                   (r \in {db'["ProgressToken"][i] :
                             i \in 1..Len(db'["ProgressToken"])})
                      <=> ~(r.expires_at < clock)
             /\ Len(db'["ProgressToken"]) <= Len(db["ProgressToken"])
             /\ \A kind \in Kinds \ {"ProgressToken"} : db'[kind] = db[kind]
       /\ Checks =>
             LET found == find_by_token(pg.token)
             IN /\ ~found.some =>
                      /\ out'.status = 404 /\ ~out'.body.some
                      /\ db' = db
                /\ found.some /\ found.val.expires_at < clock =>
                      /\ out'.status = 400 /\ ~out'.body.some
                      /\ \A i \in 1..Len(db'["ProgressToken"]) :
                            db'["ProgressToken"][i].id # found.val.id
                /\ found.some /\ ~(found.val.expires_at < clock) => db' = db
       /\ out'.op = "progress_get" /\ out'.body.some =>
             /\ out'.status = 200
             /\ out'.found.some
             /\ ~(out'.found.val.expires_at < out'.checked_at)]_vars

\* a token that outlived the cleanup of its request, expiring at that very
\* time, was expired one tick later at the check: deleted, answered 400
C27_Witness ==
    /\ out.op = "progress_get"
    /\ out.status = 400
    /\ out.found.some
    /\ out.found.val.expires_at < out.checked_at
    /\ ~find_by_token(out.token).some
    /\ <<"ProgressToken", out.found.val.id>> \in deleted

\* C28: in every progress summary a GET returns, correct_answers is at most
\* total_answers, the four counts running in any order beside the inserts of
\* new attempts of the token's user.
C28_CorrectAtMostTotal ==
    out.op = "progress_get" /\ out.body.some =>
       out.body.val.correct_answers <= out.body.val.total_answers

-----------------------------------------------------------------------------
(* What the task listing shows (SpecListing) *)

\* the task of an answer row is of type "string_cmp"
OfStringCmp(a) ==
    \E t \in RowsOf("Task") : t.id = a.task_id /\ t.task_type = "string_cmp"

\* the answer tables that differ from the stored one in nothing but the
\* answer_text of answers of string_cmp tasks and the is_correct flags
SecretVariants ==
    {answers \in [1..Len(db["Answer"]) ->
                    [id : {a.id : a \in RowsOf("Answer")},
                     task_id : {a.task_id : a \in RowsOf("Answer")},
                     answer_text : AnswerTexts, image : {"i"},
                     is_correct : BOOLEAN]] :
       \A i \in 1..Len(db["Answer"]) :
          /\ answers[i].id = db["Answer"][i].id
          /\ answers[i].task_id = db["Answer"][i].task_id
          /\ ~OfStringCmp(db["Answer"][i]) =>
                answers[i].answer_text = db["Answer"][i].answer_text}

\* C29: in a listing answered 200, an answer of a task of stored type
\* "string_cmp" is its id alone, an answer of any other task is its id and
\* its stored text, no answer carries is_correct, and the listing is the
\* same over every store that differs only in the texts of string_cmp
\* answers or in is_correct flags.
C29_ListingHidesAnswer ==
    out.op = "lessons_tasks" /\ out.status = 200 =>
       /\ out.body.some
       /\ \A i \in 1..Len(out.body.val) :
             LET t == out.body.val[i]
             IN \A j \in 1..Len(t.answers) :
                   \E a \in RowsOf("Answer") :
                      /\ a.id = t.answers[j].id
                      /\ a.task_id = t.id
                      /\ IF t.task_type = "string_cmp"
                         THEN DOMAIN t.answers[j] = {"id"}
                         ELSE /\ DOMAIN t.answers[j] = {"id", "answer_text"}
                              /\ t.answers[j].answer_text = a.answer_text
       /\ \A i \in 1..Len(db["Task"]) :
             db["Task"][i].lesson_id = out.id =>
                \E k \in 1..Len(out.body.val) :
                   /\ out.body.val[k].id = db["Task"][i].id
                   /\ out.body.val[k].task_type = db["Task"][i].task_type
                   /\ Len(out.body.val[k].answers) =
                         Cardinality({a \in RowsOf("Answer") :
                                        a.task_id = db["Task"][i].id})
       /\ \A answers \in SecretVariants :
             tasks_listing(db["Task"], answers, out.id) = out.body.val

\* a lesson with a string_cmp task and a task of another type was listed,
\* each task with an answer: the first answer without a text, the second
\* with its own
C29_Witness ==
    /\ out.op = "lessons_tasks" /\ out.status = 200
    /\ \E i, k \in 1..Len(out.body.val) :
          /\ out.body.val[i].task_type = "string_cmp"
          /\ Len(out.body.val[i].answers) = 1
          /\ DOMAIN out.body.val[i].answers[1] = {"id"}
          /\ out.body.val[k].task_type = "choice"
          /\ Len(out.body.val[k].answers) = 1
          /\ out.body.val[k].answers[1].answer_text = "b"

-----------------------------------------------------------------------------
(* What selects the verdict of a task check (SpecCheck) *)

\* the stored row of the answer a request names
StoredAnswer(req) == find_by_id("Answer", req.answer_id).val

\* the verdict the request's task_type selects
RequestedVerdict(req) ==
    IF req.task_type = "string_cmp"
    THEN StoredAnswer(req).answer_text = Trim(req.user_answer.val)
    ELSE StoredAnswer(req).is_correct

\* C30: the verdict of a task check answered 200 is, when the request's
\* task_type is "string_cmp", the equality of the stored answer_text and the
\* trimmed user_answer, and for any other request task_type the stored
\* is_correct flag of the answer, whatever type is stored for the task.
C30_VerdictByRequestType ==
    /\ pg.pc = "marked" => pg.checked.is_correct = RequestedVerdict(pg.req)
    /\ out.op = "tasks_check" /\ out.status = 200 =>
          out.body.is_correct = RequestedVerdict(out.req)

\* a check answered 200 whose request type differs from the stored type of
\* the answer's task, with a verdict that is not the one the stored type
\* would select
C30_Witness ==
    /\ out.op = "tasks_check" /\ out.status = 200
    /\ \E t \in RowsOf("Task") :
          /\ t.id = StoredAnswer(out.req).task_id
          /\ t.task_type # out.req.task_type
    /\ out.req.user_answer.some
    /\ (StoredAnswer(out.req).answer_text = Trim(out.req.user_answer.val))
          # StoredAnswer(out.req).is_correct

====
